---- MODULE Spec2Model ----
(***************************************************************************)
(* Scan-and-tally core of dcrpulse (dashboard/internal/services):          *)
(* the historical treasury-spend scanner and the per-transaction vote      *)
(* tally engine with its job registry, progress records and result cache.  *)
(* Every section guarded by one mutex in the Go code is one atomic step    *)
(* here; ledger (dcrd RPC) answers are nondeterministic.                   *)
(***************************************************************************)
EXTENDS Integers, Sequences, FiniteSets, TLC

(* ---------------- program constants ---------------- *)
TreasuryActivationHeight == 552448
VotingInterval == 2880
maxScanRange == 3000
ProgressEvery == 50
VotesPerBlockEstimate == 5

(* ---------------- bounds of the model ---------------- *)
MaxCalls == 2
MaxWindow == 3
MaxScans == 2
MaxScanSpan == 2

Hashes == {"h1"}
\* two goroutines may be inside GetTSpendVotingInfo at once
Callers == {"c1", "c2"}
\* every call launches at most one job
JobIds == 1..MaxCalls

\* blockHeight arguments of confirmed spends: one below the activation floor,
\* one whose window holds a multiple of 50 before its last block
BlockHeights == {TreasuryActivationHeight - 1, TreasuryActivationHeight + MaxWindow}
\* chain tips the ledger may report (one of a node that has synced fewer
\* than 2880 blocks), expiry arguments of mempool spends
Tips == {TreasuryActivationHeight + MaxWindow, 1000}
Expiries == {TreasuryActivationHeight + MaxWindow + 1}

VARIABLES
    call,                 \* a call of one of the pure functions: arguments and result
    clientOK,             \* rpc.DcrdClient != nil
    crashed,              \* the process died of an unrecovered panic
    votingCache,          \* map txHash -> *TSpendVotingInfo
    voteParsingProgress,  \* map txHash -> *VoteParsingProgress
    parsingJobs,          \* map txHash -> bool
    caller,               \* goroutines executing GetTSpendVotingInfo
    ret,                  \* what the last GetTSpendVotingInfo to return returned
    ncalls,               \* GetTSpendVotingInfo calls started so far
    job,                  \* goroutines executing calculateTSpendVotesAsync
    isScanRunning,
    currentScanHeight,
    totalScanHeight,
    tspendFoundCount,
    scanResults,
    newTSpendBuffer,
    scan,                 \* goroutines executing scanHistoricalTSpendsBackground
    triggerErr,           \* what the last TriggerHistoricalScan returned
    drained,              \* NewTSpends returned by GetScanProgress since the last accepted trigger
    results,              \* what the last GetScanResults since the last accepted trigger returned
    thread,               \* goroutines followed statement by statement: function and line
    mutex                 \* scanMutex, votingCacheMutex, progressMutex, jobsMutex

tallyVars == <<votingCache, voteParsingProgress, parsingJobs, caller, ret, ncalls, job>>
scanVars == <<isScanRunning, currentScanHeight, totalScanHeight, tspendFoundCount,
              scanResults, newTSpendBuffer, scan, triggerErr, drained,
                   results>>
lockVars == <<thread, mutex>>
vars == <<call, clientOK, crashed, tallyVars, scanVars, lockVars>>

(* ---------------- helpers ---------------- *)
\* Go integer division truncates toward zero
GoDiv(a, b) == IF a >= 0 THEN a \div b ELSE -((-a) \div b)

\* Go maps: m[k] = v and delete(m, k)
MapPut(m, k, v) == [x \in (DOMAIN m) \cup {k} |-> IF x = k THEN v ELSE m[x]]
MapDelete(m, k) == [x \in (DOMAIN m) \ {k} |-> m[x]]
EmptyMap == [x \in {} |-> 0]

\* parsingJobs[txHash] on a map[string]bool: false when the key is absent
JobRunning(h) == h \in DOMAIN parsingJobs /\ parsingJobs[h]

Max(a, b) == IF a > b THEN a ELSE b

\* a slice holding the first elements of another
IsPrefix(s, t) == Len(s) <= Len(t) /\ \A n \in 1..Len(s) : s[n] = t[n]


RECURSIVE Gcd(_, _)
Gcd(a, b) == IF b = 0 THEN a ELSE Gcd(b, a % b)

\* A float64 percentage n/d*100 kept exactly, as a fraction in lowest terms (d > 0)
Pct(n, d) == LET g == Gcd(n * 100, d) IN [num |-> (n * 100) \div g, den |-> d \div g]
PctLE(p, q) == p.num * q.den <= q.num * p.den

\* what the scan loop has been through: "none", "failed" once a fetch or parse
\* has failed, "foundAfter" once a spend was recorded after that
AfterFailure(fault, failed) == IF failed /\ fault = "none" THEN "failed" ELSE fault
AfterFound(fault) == IF fault = "failed" THEN "foundAfter" ELSE fault

\* no pure function is being called
NoCall == [fn |-> "none", args |-> <<>>, result |-> "", done |-> FALSE]

(* ---------------- vote-bits codec ---------------- *)
\* Go strings of ASCII characters are sequences of one-character strings
HexDigitsLower == <<"0", "1", "2", "3", "4", "5", "6", "7", "8", "9",
                    "a", "b", "c", "d", "e", "f">>
HexDigitsUpper == <<"0", "1", "2", "3", "4", "5", "6", "7", "8", "9",
                    "A", "B", "C", "D", "E", "F">>
IsHexDigit(c) == \E n \in 1..16 : HexDigitsLower[n] = c \/ HexDigitsUpper[n] = c
HexValue(c) == (CHOOSE n \in 1..16 : HexDigitsLower[n] = c \/ HexDigitsUpper[n] = c) - 1

UpperLetters == <<"A", "B", "C", "D", "E", "F", "G", "H", "I", "J", "K", "L", "M",
                  "N", "O", "P", "Q", "R", "S", "T", "U", "V", "W", "X", "Y", "Z">>
LowerLetters == <<"a", "b", "c", "d", "e", "f", "g", "h", "i", "j", "k", "l", "m",
                  "n", "o", "p", "q", "r", "s", "t", "u", "v", "w", "x", "y", "z">>
\* case folding of one ASCII character
ToLower(c) ==
    IF \E n \in 1..26 : UpperLetters[n] = c
    THEN LowerLetters[CHOOSE n \in 1..26 : UpperLetters[n] = c]
    ELSE c
\* strings.EqualFold on such strings
EqualFold(s, t) == Len(s) = Len(t) /\ \A n \in 1..Len(s) : ToLower(s[n]) = ToLower(t[n])

\* the Go slice expression s[from:to]
Slice(s, from, to) == SubSeq(s, from + 1, to)

\* reverseHexBytes reversing the characters instead of the byte pairs
reverseHexChars(hexStr) == [n \in 1..Len(hexStr) |-> hexStr[Len(hexStr) + 1 - n]]

\* reverseHexBytes: the byte pairs of a hex string in reverse order; a string
\* of odd length is returned as it is
reverseHexBytes(hexStr) ==
    IF Len(hexStr) % 2 # 0 THEN hexStr
    ELSE [n \in 1..Len(hexStr) |->
            LET i == (n - 1) - ((n - 1) % 2)
                srcPos == Len(hexStr) - i - 2
            IN hexStr[srcPos + ((n - 1) % 2) + 1]]

\* fmt.Sscanf(voteHex, "%02x", &voteByte) on a zero voteByte, its error
\* ignored: the leading hex digits within the width of 2 are converted; when
\* the first character is no hex digit nothing is stored and voteByte stays 0
Sscanf02x(voteHex) ==
    IF ~IsHexDigit(voteHex[1]) THEN 0
    ELSE IF ~IsHexDigit(voteHex[2]) THEN HexValue(voteHex[1])
    ELSE HexValue(voteHex[1]) * 16 + HexValue(voteHex[2])

parseVoteBitsForTSpend(hexData, tspendHash) ==
    IF Len(hexData) < 4 THEN "unknown"
    ELSE IF Len(hexData) <= 4 THEN "unknown"
    ELSE LET dataHex == Slice(hexData, 4, Len(hexData))
         IN IF Len(dataHex) < 4 THEN "unknown"
            ELSE LET dataWithoutPrefix == Slice(dataHex, 4, Len(dataHex))
                 IN IF Len(dataWithoutPrefix) < 64 THEN "unknown"
                    ELSE LET hashHex == Slice(dataWithoutPrefix, 0, 64)
                             reversedHash == reverseHexBytes(hashHex)
                         IN IF ~EqualFold(reversedHash, tspendHash) THEN "unknown"
                            ELSE IF Len(dataWithoutPrefix) < 66 THEN "unknown"
                            ELSE LET voteHex == Slice(dataWithoutPrefix, 64, 66)
                                     voteByte == Sscanf02x(voteHex)
                                     voteChoice == voteByte % 4    \* voteByte & 0x03
                                 IN CASE voteChoice = 0 -> "abstain"
                                      [] voteChoice = 1 -> "yes"
                                      [] voteChoice = 2 -> "no"
                                      [] voteChoice = 3 -> "invalid"

\* ---- the payloads a decoder is given ----
\* the two hex digits of a byte, and the hex string of a sequence of bytes
HexOf(b, upper) ==
    LET d == IF upper THEN HexDigitsUpper ELSE HexDigitsLower
    IN <<d[(b \div 16) + 1], d[(b % 16) + 1]>>
HexString(bytes, upper) ==
    [n \in 1..(2 * Len(bytes)) |-> HexOf(bytes[(n + 1) \div 2], upper)[((n - 1) % 2) + 1]]
ReverseBytes(bytes) == [n \in 1..Len(bytes) |-> bytes[Len(bytes) + 1 - n]]

\* 32-byte transaction hashes: 0102..20, its byte-reversal, and one with letters
TxHashes == {[n \in 1..32 |-> n], [n \in 1..32 |-> 33 - n], [n \in 1..32 |-> 255 - n]}
\* OP_RETURN opcode, push length, 2-byte prefix: a stake vote's, and others
Headers == {<<"6", "a", "2", "4", "5", "4", "5", "6">>,
            <<"0", "0", "F", "F", "0", "0", "0", "0">>}
\* [OP_RETURN][length][prefix][tspend_hash_reversed][vote_bits]
Payload(header, hash, b, upper) ==
    header \o HexString(ReverseBytes(hash), upper) \o HexOf(b, upper)
\* vote-byte fields that are not two hex digits
BadVoteHex == {<<"z", "z">>, <<"z", "1">>, <<"1", "z">>, <<"0", "x">>, <<"G", "2">>}

\* how a payload was made: encoded from (hash, vote byte), cut short after
\* some characters, or given a vote-byte field that is no hex
CodecInputs(headers) ==
    {[made |-> "encoded", hash |-> h, vote |-> b, hexData |-> Payload(hd, h, b, up),
      target |-> t, tspendHash |-> HexString(t, tup)] :
        hd \in headers, h \in TxHashes, b \in 0..255, up \in BOOLEAN,
        t \in TxHashes, tup \in BOOLEAN}
    \cup
    {[made |-> "short", hash |-> h, vote |-> 1,
      hexData |-> SubSeq(Payload(hd, h, 1, up), 1, len),
      target |-> h, tspendHash |-> HexString(h, FALSE)] :
        hd \in headers, h \in TxHashes, up \in BOOLEAN, len \in 0..73}
    \cup
    {[made |-> "badvote", hash |-> h, vote |-> 0,
      hexData |-> SubSeq(Payload(hd, h, 0, up), 1, 72) \o v,
      target |-> h, tspendHash |-> HexString(h, FALSE)] :
        hd \in headers, h \in TxHashes, up \in BOOLEAN, v \in BadVoteHex}

\* parseVoteBitsForTSpend is applied to the arguments of the call
Apply_parseVoteBitsForTSpend ==
    /\ call.fn = "parseVoteBitsForTSpend" /\ ~call.done
    /\ call' = [call EXCEPT !.done = TRUE,
                            !.result = parseVoteBitsForTSpend(call.args.hexData,
                                                              call.args.tspendHash)]
    /\ UNCHANGED <<lockVars, clientOK, crashed, tallyVars, scanVars>>

(* ---------------- spend classifier ---------------- *)
\* decoded JSON values (interface{}): nil, string, float64, []interface{},
\* map[string]interface{}
Nil == [t |-> "nil"]
Str(chars) == [t |-> "string", s |-> chars]
Num(x) == [t |-> "number", n |-> x]
List(items) == [t |-> "list", l |-> items]
Map(fields) == [t |-> "map", m |-> fields]
\* m[k] of a Go map: nil when the key is absent
Get(m, k) == IF k \in DOMAIN m THEN m[k] ELSE Nil

\* strings.ToLower and strings.Contains
StringToLower(s) == [n \in 1..Len(s) |-> ToLower(s[n])]
Contains(s, substr) ==
    \E i \in 0..(Len(s) - Len(substr)) : SubSeq(s, i + 1, i + Len(substr)) = substr
Treasurygen == <<"t", "r", "e", "a", "s", "u", "r", "y", "g", "e", "n">>

\* isTreasurySpend without the version test of the second method
isTreasurySpendAnyVersion(tx) ==
    LET vin == Get(tx, "vin")
        vout == Get(tx, "vout")
        scriptType(v) == Get(Get(v.m, "scriptPubKey").m, "type")
    IN \/ /\ vin.t = "list" /\ Len(vin.l) > 0
          /\ \E n \in 1..Len(vin.l) :
                vin.l[n].t = "map" /\ "treasuryspend" \in DOMAIN vin.l[n].m
       \/ /\ vout.t = "list" /\ Len(vout.l) > 0
          /\ \E n \in 1..Len(vout.l) :
                /\ vout.l[n].t = "map"
                /\ Get(vout.l[n].m, "scriptPubKey").t = "map"
                /\ scriptType(vout.l[n]).t = "string"
                /\ Contains(StringToLower(scriptType(vout.l[n]).s), Treasurygen)

\* isTreasurySpend: an input with a "treasuryspend" key, or an output whose
\* script type contains "treasurygen" in a version 3 transaction; each loop
\* returns true at the first match and skips elements of another type
isTreasurySpend(tx) ==
    LET vin == Get(tx, "vin")
        vout == Get(tx, "vout")
        scriptType(v) == Get(Get(v.m, "scriptPubKey").m, "type")
        version == IF Get(tx, "version").t = "number" THEN Get(tx, "version").n ELSE 0
    IN \/ /\ vin.t = "list" /\ Len(vin.l) > 0
          /\ \E n \in 1..Len(vin.l) :
                vin.l[n].t = "map" /\ "treasuryspend" \in DOMAIN vin.l[n].m
       \/ /\ vout.t = "list" /\ Len(vout.l) > 0
          /\ \E n \in 1..Len(vout.l) :
                /\ vout.l[n].t = "map"
                /\ Get(vout.l[n].m, "scriptPubKey").t = "map"
                /\ scriptType(vout.l[n]).t = "string"
                /\ Contains(StringToLower(scriptType(vout.l[n]).s), Treasurygen)
                /\ version = 3

\* ---- the transaction records a classifier is given ----
PubkeyhashType == <<"p", "u", "b", "k", "e", "y", "h", "a", "s", "h">>
TreasurybaseType == <<"t", "r", "e", "a", "s", "u", "r", "y", "b", "a", "s", "e">>
TreasurygenPubkeyhashType == Treasurygen \o <<"-">> \o PubkeyhashType
TreasuryGenScriptHashType ==
    <<"T", "r", "e", "a", "s", "u", "r", "y", "G", "e", "n", "-",
      "S", "c", "r", "i", "p", "t", "H", "a", "s", "h">>
\* kinds of input: not an object, an ordinary input, an input with the marker
\* (value a string or null)
InputKinds == {"wrong", "ordinary", "marker", "markerNull"}
Input(kind) ==
    CASE kind = "wrong" -> Str(<<"x">>)
      [] kind = "ordinary" -> Map([txid |-> Str(<<"a">>), vout |-> Num(0)])
      [] kind = "marker" -> Map([treasuryspend |-> Str(<<"c", "2">>), sequence |-> Num(0)])
      [] kind = "markerNull" -> Map([treasuryspend |-> Nil, sequence |-> Num(0)])
\* kinds of output: not an object, no scriptPubKey, scriptPubKey not an object,
\* no type, type not a string, and four script types
OutputKinds == {"wrong", "noScript", "scriptWrong", "noType", "typeWrong",
                "pubkeyhash", "treasurybase", "treasurygen", "TreasuryGen"}
Output(kind) ==
    CASE kind = "wrong" -> Num(7)
      [] kind = "noScript" -> Map([value |-> Num(1)])
      [] kind = "scriptWrong" -> Map([value |-> Num(1), scriptPubKey |-> Str(<<"x">>)])
      [] kind = "noType" -> Map([value |-> Num(1), scriptPubKey |-> Map([hex |-> Str(<<"c", "3">>)])])
      [] kind = "typeWrong" -> Map([value |-> Num(1), scriptPubKey |-> Map([type |-> Num(3)])])
      [] kind = "pubkeyhash" ->
            Map([value |-> Num(1), scriptPubKey |-> Map([type |-> Str(PubkeyhashType)])])
      [] kind = "treasurybase" ->
            Map([value |-> Num(1), scriptPubKey |-> Map([type |-> Str(TreasurybaseType)])])
      [] kind = "treasurygen" ->
            Map([value |-> Num(1), scriptPubKey |-> Map([type |-> Str(TreasurygenPubkeyhashType)])])
      [] kind = "TreasuryGen" ->
            Map([value |-> Num(1), scriptPubKey |-> Map([type |-> Str(TreasuryGenScriptHashType)])])
\* a record has no, one or two inputs, and outputs
ItemCounts == 0..2
ItemLists(kinds) == UNION {[1..n -> kinds] : n \in ItemCounts}
\* a field is absent, of a wrong type, or a list
Shapes(kinds) ==
    {[shape |-> "absent", items |-> <<>>], [shape |-> "wrong", items |-> <<>>]}
    \cup {[shape |-> "list", items |-> l] : l \in ItemLists(kinds)}
VersionKinds == {"absent", "string3", "two", "three"}
\* the transaction record of a description
Tx(vin, vout, version) ==
    LET keys == {"txid"}
                \cup (IF vin.shape = "absent" THEN {} ELSE {"vin"})
                \cup (IF vout.shape = "absent" THEN {} ELSE {"vout"})
                \cup (IF version = "absent" THEN {} ELSE {"version"})
    IN [k \in keys |->
          CASE k = "txid" -> Str(<<"a", "b">>)
            [] k = "vin" -> IF vin.shape = "wrong" THEN Str(<<"x">>)
                            ELSE List([n \in 1..Len(vin.items) |-> Input(vin.items[n])])
            [] k = "vout" -> IF vout.shape = "wrong" THEN Map([n |-> Num(0)])
                             ELSE List([n \in 1..Len(vout.items) |-> Output(vout.items[n])])
            [] k = "version" -> CASE version = "string3" -> Str(<<"3">>)
                                  [] version = "two" -> Num(2)
                                  [] version = "three" -> Num(3)]
ClassifierInputs(versions) ==
    {[vin |-> vin, vout |-> vout, version |-> version, tx |-> Tx(vin, vout, version)] :
        vin \in Shapes(InputKinds), vout \in Shapes(OutputKinds), version \in versions}

\* isTreasurySpend is applied to the record of the call
Apply_isTreasurySpend ==
    /\ call.fn = "isTreasurySpend" /\ ~call.done
    /\ call' = [call EXCEPT !.done = TRUE, !.result = isTreasurySpend(call.args.tx)]
    /\ UNCHANGED <<lockVars, clientOK, crashed, tallyVars, scanVars>>

(* ---------------- vote counting of one stake transaction ---------------- *)
NulldataType == <<"n", "u", "l", "l", "d", "a", "t", "a">>

\* isVoteTransaction: the first input has a "stakebase" key
isVoteTransaction(tx) ==
    LET vin == Get(tx, "vin")
    IN /\ vin.t = "list" /\ Len(vin.l) # 0
       /\ vin.l[1].t = "map"
       /\ "stakebase" \in DOMAIN vin.l[1].m

\* parseTSpendVote, one pass of its loop: what output v contributes
outputVote(v, tspendHash) ==
    IF v.t # "map" THEN "unknown"
    ELSE IF Get(v.m, "scriptPubKey").t # "map" THEN "unknown"
    ELSE LET scriptPubKey == Get(v.m, "scriptPubKey").m
             scriptType == Get(scriptPubKey, "type")
             hexData == Get(scriptPubKey, "hex")
         IN IF scriptType.t # "string" \/ scriptType.s # NulldataType THEN "unknown"
            ELSE IF hexData.t # "string" \/ hexData.s = <<>> THEN "unknown"
            ELSE parseVoteBitsForTSpend(hexData.s, tspendHash)

\* parseTSpendVote: at least two outputs, and the first nulldata output that
\* decodes to something other than unknown
parseTSpendVote(tx, tspendHash) ==
    LET vout == Get(tx, "vout")
    IN IF vout.t # "list" \/ Len(vout.l) < 2 THEN "unknown"
       ELSE LET decided == {n \in 1..Len(vout.l) : outputVote(vout.l[n], tspendHash) # "unknown"}
            IN IF decided = {} THEN "unknown"
               ELSE outputVote(vout.l[CHOOSE n \in decided : \A m \in decided : n <= m],
                               tspendHash)

\* the body of the loop over a block's stake transactions, after a
\* successful getTransaction: the counters after tx
countVote(tx, tspendHash, yesVotes, noVotes) ==
    IF ~isVoteTransaction(tx) THEN [yesVotes |-> yesVotes, noVotes |-> noVotes]
    ELSE LET vote == parseTSpendVote(tx, tspendHash)
         IN [yesVotes |-> IF vote = "yes" THEN yesVotes + 1 ELSE yesVotes,
             noVotes |-> IF vote = "no" THEN noVotes + 1 ELSE noVotes]

\* ---- the stake transactions a job meets ----
\* the spend voted on, and the payload of a vote on it
VotedHash == [n \in 1..32 |-> 255 - n]
VotePayload(hash, b) == Payload(<<"6", "a", "2", "4", "5", "4", "5", "6">>, hash, b, FALSE)
\* kinds of input: not an object, an ordinary input, a stakebase input
VoteInputKinds == {"wrong", "ordinary", "stakebase"}
VoteInput(kind) ==
    CASE kind = "wrong" -> Num(1)
      [] kind = "ordinary" -> Map([txid |-> Str(<<"a">>), vout |-> Num(0)])
      [] kind = "stakebase" -> Map([stakebase |-> Str(<<"0", "0">>), sequence |-> Num(0)])
\* kinds of output: not an object, no scriptPubKey, a nulldata script without
\* hex or with an empty one, a pubkeyhash script whose hex is a yes vote, and
\* nulldata scripts with a vote on the spend (upper bits set or not) or on
\* another one
VoteOutputKinds == {"wrong", "noScript", "noHex", "emptyHex", "pubkeyhashYes",
                    "yes", "no", "abstain", "invalid", "otherHash"}
NulldataOutput(hexData) ==
    Map([value |-> Num(0), scriptPubKey |-> Map([type |-> Str(NulldataType),
                                                hex |-> Str(hexData)])])
VoteOutput(kind) ==
    CASE kind = "wrong" -> Num(7)
      [] kind = "noScript" -> Map([value |-> Num(1)])
      [] kind = "noHex" -> Map([value |-> Num(0), scriptPubKey |-> Map([type |-> Str(NulldataType)])])
      [] kind = "emptyHex" -> NulldataOutput(<<>>)
      [] kind = "pubkeyhashYes" ->
            Map([value |-> Num(1), scriptPubKey |-> Map([type |-> Str(PubkeyhashType),
                                                        hex |-> Str(VotePayload(VotedHash, 1))])])
      [] kind = "yes" -> NulldataOutput(VotePayload(VotedHash, 1))
      [] kind = "no" -> NulldataOutput(VotePayload(VotedHash, 254))
      [] kind = "abstain" -> NulldataOutput(VotePayload(VotedHash, 4))
      [] kind = "invalid" -> NulldataOutput(VotePayload(VotedHash, 3))
      [] kind = "otherHash" -> NulldataOutput(VotePayload([n \in 1..32 |-> n], 1))
StakeTx(vin, vout) ==
    LET keys == {"txid"}
                \cup (IF vin.shape = "absent" THEN {} ELSE {"vin"})
                \cup (IF vout.shape = "absent" THEN {} ELSE {"vout"})
    IN [k \in keys |->
          CASE k = "txid" -> Str(<<"a", "b">>)
            [] k = "vin" -> IF vin.shape = "wrong" THEN Str(<<"x">>)
                            ELSE List([n \in 1..Len(vin.items) |-> VoteInput(vin.items[n])])
            [] k = "vout" -> IF vout.shape = "wrong" THEN Map([n |-> Num(0)])
                             ELSE List([n \in 1..Len(vout.items) |-> VoteOutput(vout.items[n])])]
\* counters before the transaction
Counters == {[yesVotes |-> 0, noVotes |-> 0], [yesVotes |-> 2, noVotes |-> 1]}
StakeTxInputs(counters) ==
    {[vin |-> vin, vout |-> vout, tx |-> StakeTx(vin, vout),
      tspendHash |-> HexString(VotedHash, FALSE), before |-> c] :
        vin \in Shapes(VoteInputKinds), vout \in Shapes(VoteOutputKinds), c \in counters}

\* the loop body is applied to the transaction of the call
Apply_countVote ==
    /\ call.fn = "countVote" /\ ~call.done
    /\ call' = [call EXCEPT !.done = TRUE,
                            !.result = countVote(call.args.tx, call.args.tspendHash,
                                                 call.args.before.yesVotes,
                                                 call.args.before.noVotes)]
    /\ UNCHANGED <<lockVars, clientOK, crashed, tallyVars, scanVars>>

(* ---------------- history records ---------------- *)
\* the loop of extractTSpendHistory over vout from index n on: the value of
\* each output is added to amount, and every output whose scriptPubKey has a
\* non-empty addresses list with a string first assigns that string to payee
RECURSIVE historyLoop(_, _, _, _)
historyLoop(vout, n, amount, payee) ==
    IF n > Len(vout) THEN [amount |-> amount, payee |-> payee]
    ELSE LET voutMap == IF vout[n].t = "map" THEN vout[n].m ELSE <<>>
             value == IF Get(voutMap, "value").t = "number"
                      THEN Get(voutMap, "value").n ELSE 0
             scriptPubKey == Get(voutMap, "scriptPubKey")
             addresses == IF scriptPubKey.t = "map"
                          THEN Get(scriptPubKey.m, "addresses") ELSE Nil
             ok == /\ addresses.t = "list" /\ Len(addresses.l) > 0
                   /\ addresses.l[1].t = "string"
         IN historyLoop(vout, n + 1, amount + value,
                        IF ok THEN addresses.l[1].s ELSE payee)

\* extractTSpendHistory: the record of a spend found in a block
extractTSpendHistory(tx, blockHeight, blockHash, blockTime) ==
    LET txid == IF Get(tx, "txid").t = "string" THEN Get(tx, "txid").s ELSE <<>>
        vout == IF Get(tx, "vout").t = "list" THEN Get(tx, "vout").l ELSE <<>>
        sums == historyLoop(vout, 1, 0, <<>>)
    IN [TxHash |-> txid, Amount |-> sums.amount, Payee |-> sums.payee,
        BlockHeight |-> blockHeight, BlockHash |-> blockHash, Timestamp |-> blockTime,
        VoteResult |-> "approved"]

\* kinds of output of a spend: not an object, value only, value not a number,
\* scriptPubKey without addresses, an empty addresses list, a first address
\* that is no string, and outputs paying 1 to "a" and 2 to "b"
PaidOutputKinds == {"wrong", "valueOnly", "valueWrong", "noAddresses", "emptyAddresses",
                    "addressWrong", "payA", "payB"}
PaidOutput(kind) ==
    CASE kind = "wrong" -> Num(7)
      [] kind = "valueOnly" -> Map([value |-> Num(4)])
      [] kind = "valueWrong" ->
            Map([value |-> Str(<<"5">>),
                 scriptPubKey |-> Map([addresses |-> List(<<Str(<<"c">>)>>)])])
      [] kind = "noAddresses" ->
            Map([value |-> Num(1), scriptPubKey |-> Map([type |-> Str(TreasurygenPubkeyhashType)])])
      [] kind = "emptyAddresses" ->
            Map([value |-> Num(1), scriptPubKey |-> Map([addresses |-> List(<<>>)])])
      [] kind = "addressWrong" ->
            Map([value |-> Num(1), scriptPubKey |-> Map([addresses |-> List(<<Num(3)>>)])])
      [] kind = "payA" ->
            Map([value |-> Num(1),
                 scriptPubKey |-> Map([addresses |-> List(<<Str(<<"a">>), Str(<<"z">>)>>)])])
      [] kind = "payB" ->
            Map([value |-> Num(2), scriptPubKey |-> Map([addresses |-> List(<<Str(<<"b">>)>>)])])
\* the record of a treasury spend (its input carries the marker) of a description
SpendTx(vout) ==
    LET keys == {"txid", "vin", "version"} \cup (IF vout.shape = "absent" THEN {} ELSE {"vout"})
    IN [k \in keys |->
          CASE k = "txid" -> Str(<<"a", "b">>)
            [] k = "vin" -> List(<<Input("marker")>>)
            [] k = "version" -> Num(3)
            [] k = "vout" -> IF vout.shape = "wrong" THEN Map([n |-> Num(0)])
                             ELSE List([n \in 1..Len(vout.items) |-> PaidOutput(vout.items[n])])]
SpendTxInputs(heights) ==
    {[vout |-> vout, tx |-> SpendTx(vout), blockHeight |-> h,
      blockHash |-> <<"h", "a", "s", "h">>, blockTime |-> 1700000000] :
        vout \in Shapes(PaidOutputKinds), h \in heights}

\* extractTSpendHistory is applied to the record of the call
Apply_extractTSpendHistory ==
    /\ call.fn = "extractTSpendHistory" /\ ~call.done
    /\ call' = [call EXCEPT !.done = TRUE,
                            !.result = extractTSpendHistory(call.args.tx, call.args.blockHeight,
                                                            call.args.blockHash,
                                                            call.args.blockTime)]
    /\ UNCHANGED <<lockVars, clientOK, crashed, tallyVars, scanVars>>

(* ---------------- opening the wallet ---------------- *)
\* maxRetries arguments of OpenWalletWithRetry: negative, zero and positive
MaxRetries == 12
RetryLimits == -2..MaxRetries

\* the locals of OpenWalletWithRetry: the loop variable, how often OpenWallet
\* was called, whether a call succeeded, and what was returned
RetryStart == [i |-> 0, attempts |-> 0, opened |-> FALSE, err |-> ""]

\* one iteration of the loop: OpenWallet succeeds and nil is returned, or it
\* fails and the loop sleeps and goes on, or, in the last iteration, returns
\* the error
Retry_Attempt ==
    /\ call.fn = "OpenWalletWithRetry" /\ ~call.done
    /\ call.result.i < call.args.maxRetries
    /\ \E ok \in BOOLEAN :
         call' = [call EXCEPT
            !.result = IF ok
                       THEN [@ EXCEPT !.attempts = @ + 1, !.opened = TRUE, !.err = "nil"]
                       ELSE IF call.result.i < call.args.maxRetries - 1
                       THEN [@ EXCEPT !.attempts = @ + 1, !.i = @ + 1]
                       ELSE [@ EXCEPT !.attempts = @ + 1, !.err = "failed to open wallet"],
            !.done = ok \/ ~(call.result.i < call.args.maxRetries - 1)]
    /\ UNCHANGED <<lockVars, clientOK, crashed, tallyVars, scanVars>>

\* the loop condition is false: the return nil after the loop
Retry_AfterLoop ==
    /\ call.fn = "OpenWalletWithRetry" /\ ~call.done
    /\ ~(call.result.i < call.args.maxRetries)
    /\ call' = [call EXCEPT !.result.err = "nil", !.done = TRUE]
    /\ UNCHANGED <<lockVars, clientOK, crashed, tallyVars, scanVars>>

(* ---------------- mempool probe ---------------- *)
\* a Go slice: nil, or a list of items
NilSlice == [nil |-> TRUE, items |-> <<>>]
EmptySlice == [nil |-> FALSE, items |-> <<>>]      \* []types.TSpend{}
AppendSlice(sl, x) == [nil |-> FALSE, items |-> Append(sl.items, x)]

\* pending transactions, and the ledger's answers to the probe's requests
MempoolTxs == {"m1", "m2", "m3"}
MempoolAnswers ==
    {[kind |-> k, txs |-> {}] : k \in {"fail", "badjson"}}
    \cup {[kind |-> "ok", txs |-> S] : S \in SUBSET MempoolTxs}
HeightAnswers == {[ok |-> FALSE, height |-> 0], [ok |-> TRUE, height |-> 552450]}
\* getTransaction fails, or gives a transaction that isTreasurySpend rejects
\* or accepts, with its expiry
MempoolTxAnswers ==
    {[kind |-> "fail", expiry |-> 0], [kind |-> "other", expiry |-> 0]}
    \cup {[kind |-> "spend", expiry |-> e] : e \in {552400, 552571}}

\* extractTSpendInfo, for the fields that depend on the height
extractTSpendInfo(txid, expiry, currentHeight) ==
    [TxHash |-> txid, ExpiryHeight |-> expiry, CurrentHeight |-> currentHeight,
     BlocksRemaining |-> expiry - currentHeight, Status |-> "voting"]

\* the probe before its first request
ProbeStart(pc) ==
    [pc |-> pc, balance |-> 0, pending |-> {}, currentHeight |-> 0,
     heightFailed |-> FALSE, fetched |-> {}, tspends |-> NilSlice]
\* what the entry point returns for scanMempoolForTSpends' (tspends, err):
\* GetMempoolTSpends passes both on, FetchTreasuryInfo replaces a failed or
\* nil list by an empty one and returns no error
ProbeReturn(fn, tspends, err) ==
    IF fn = "GetMempoolTSpends" THEN [tspends |-> tspends, err |-> err]
    ELSE [tspends |-> IF err # "" \/ tspends.nil THEN EmptySlice ELSE tspends,
          err |-> ""]
ProbeFns == {"GetMempoolTSpends", "FetchTreasuryInfo"}

\* FetchTreasuryInfo: getTreasuryBalance, a failure gives balance 0
Fetch_getTreasuryBalance ==
    /\ call.fn = "FetchTreasuryInfo" /\ ~call.done /\ call.args.pc = "balance"
    /\ \E b \in {0, 1} :
         call' = [call EXCEPT !.args.pc = "mempool",
                              !.args.balance = IF clientOK THEN b ELSE 0]
    /\ UNCHANGED <<lockVars, clientOK, crashed, tallyVars, scanVars>>

\* scanMempoolForTSpends: the client test and getrawmempool
Probe_GetRawMempool ==
    /\ call.fn \in ProbeFns /\ ~call.done /\ call.args.pc = "mempool"
    /\ IF ~clientOK
       THEN call' = [call EXCEPT !.done = TRUE,
                        !.result = ProbeReturn(call.fn, NilSlice, "dcrd client not available")]
       ELSE \E a \in MempoolAnswers :
              IF a.kind = "ok"
              THEN call' = [call EXCEPT !.args.pc = "height", !.args.pending = a.txs]
              ELSE call' = [call EXCEPT !.done = TRUE,
                              !.result = ProbeReturn(call.fn, NilSlice,
                                            IF a.kind = "fail" THEN "failed to get mempool"
                                            ELSE "failed to unmarshal mempool")]
    /\ UNCHANGED <<lockVars, clientOK, crashed, tallyVars, scanVars>>

\* scanMempoolForTSpends: GetBlockCount, a failure gives height 0
Probe_GetBlockCount ==
    /\ call.fn \in ProbeFns /\ ~call.done /\ call.args.pc = "height"
    /\ \E a \in HeightAnswers :
         call' = [call EXCEPT !.args.pc = "txs",
                              !.args.currentHeight = IF a.ok THEN a.height ELSE 0,
                              !.args.heightFailed = ~a.ok]
    /\ UNCHANGED <<lockVars, clientOK, crashed, tallyVars, scanVars>>

\* scanMempoolForTSpends: one pass of the loop over the map, in any order,
\* with a failed getTransaction appending every spend it meets
Probe_TxNoSkip ==
    /\ call.fn \in ProbeFns /\ ~call.done /\ call.args.pc = "txs"
    /\ call.args.pending # {}
    /\ \E tx \in call.args.pending, a \in MempoolTxAnswers :
         call' = [call EXCEPT
                    !.args.pending = @ \ {tx},
                    !.args.fetched = @ \cup {[tx |-> tx, answer |-> a]},
                    !.args.tspends =
                        IF a.kind \in {"spend", "fail"}
                        THEN AppendSlice(@, extractTSpendInfo(tx, a.expiry,
                                                              call.args.currentHeight))
                        ELSE @]
    /\ UNCHANGED <<lockVars, clientOK, crashed, tallyVars, scanVars>>

\* scanMempoolForTSpends: one pass of the loop over the map, in any order
Probe_Tx ==
    /\ call.fn \in ProbeFns /\ ~call.done /\ call.args.pc = "txs"
    /\ call.args.pending # {}
    /\ \E tx \in call.args.pending, a \in MempoolTxAnswers :
         call' = [call EXCEPT
                    !.args.pending = @ \ {tx},
                    !.args.fetched = @ \cup {[tx |-> tx, answer |-> a]},
                    !.args.tspends =
                        IF a.kind = "spend"
                        THEN AppendSlice(@, extractTSpendInfo(tx, a.expiry,
                                                              call.args.currentHeight))
                        ELSE @]
    /\ UNCHANGED <<lockVars, clientOK, crashed, tallyVars, scanVars>>

\* scanMempoolForTSpends: return tspends, nil
Probe_Return ==
    /\ call.fn \in ProbeFns /\ ~call.done /\ call.args.pc = "txs"
    /\ call.args.pending = {}
    /\ call' = [call EXCEPT !.done = TRUE,
                            !.result = ProbeReturn(call.fn, call.args.tspends, "")]
    /\ UNCHANGED <<lockVars, clientOK, crashed, tallyVars, scanVars>>

(* ---------------- vote tally engine: records ---------------- *)
\* types.TSpendVotingInfo (integer and boolean fields)
VotingInfo(start, end, yes, no, eligible, quorum, achieved, complete, mempool) ==
    [VotingStartBlock |-> start, VotingEndBlock |-> end, YesVotes |-> yes, NoVotes |-> no,
     EligibleVotes |-> eligible, VotesCast |-> yes + no, QuorumRequired |-> quorum,
     QuorumAchieved |-> achieved, VotingComplete |-> complete, InMempool |-> mempool]

ZeroInfo == VotingInfo(0, 0, 0, 0, 0, 0, FALSE, FALSE, FALSE)

\* types.VoteParsingProgress
ParsingProgress(parsing, pct, cur, total, yes, no) ==
    [IsParsing |-> parsing, Progress |-> pct, CurrentBlock |-> cur, TotalBlocks |-> total,
     YesVotes |-> yes, NoVotes |-> no]

\* the statistics both computations derive from the counts
FinalInfo(start, end, yes, no, eligible, complete, mempool) ==
    LET quorumRequired == GoDiv(eligible, VotesPerBlockEstimate)
    IN VotingInfo(start, end, yes, no, eligible, quorumRequired,
                  yes + no >= quorumRequired, complete, mempool)

\* the yes and no votes on one hash the ledger holds within one window
LedgerVotes == {<<0, 0>>, <<1, 0>>, <<0, 1>>}

\* one block of the window as the ledger answers it: a failed block fetch or
\* parse, or the yes and no votes for the hash found among those of its stake
\* transactions whose fetch succeeded
BlockAnswers == {<<"fail", 0, 0>>, <<"ok", 0, 0>>, <<"ok", 1, 0>>, <<"ok", 0, 1>>}

IdleCaller == [pc |-> "idle", txHash |-> "", blockHeight |-> 0, expiry |-> 0,
               inMempool |-> FALSE, isJobRunning |-> FALSE]
\* a return of GetTSpendVotingInfo: which return statement produced it, for which
\* arguments, whether the caller's path issued a ledger call, and the value;
\* for a computed tally also the blockHeight argument, the first height
\* countTSpendVotesInRange visited, how many heights it visited, the chain
\* tip GetBlockCount reported and the expiry argument
Return(kind, h, mempool, ledger, info) ==
    [kind |-> kind, txHash |-> h, inMempool |-> mempool, ledger |-> ledger, info |-> info,
     blockHeight |-> 0, scanFrom |-> 0, visited |-> 0, tip |-> 0, expiry |-> 0]
NoReturn == Return("none", "", FALSE, FALSE, ZeroInfo)

UnusedJob == [pc |-> "unused", txHash |-> "", blockHeight |-> 0, votingStartBlock |-> 0,
              votingEndBlock |-> 0, totalBlocks |-> 0, height |-> 0,
              yesVotes |-> 0, noVotes |-> 0]

ActiveJobPcs == {"start", "loop", "final", "markComplete", "cleanup"}
JobsOf(h) == {j \in JobIds : job[j].pc \in ActiveJobPcs /\ job[j].txHash = h}
LaunchedFor(h) == {j \in JobIds : job[j].pc # "unused" /\ job[j].txHash = h}


(* ---------------- GetTSpendVotingInfo ---------------- *)
\* GetTally_CheckCache without the cache lookup
GetTally_CheckCacheNever(c) ==
    /\ ~crashed
    /\ caller[c].pc = "idle"
    /\ ncalls < MaxCalls
    /\ ncalls' = ncalls + 1
    /\ \E h \in Hashes, m \in BOOLEAN :
       \E bh \in (IF m THEN {0} ELSE BlockHeights), e \in (IF m THEN Expiries ELSE {0}) :
          IF FALSE
          THEN /\ ret' = Return("cached", h, m, FALSE, votingCache[h])
               /\ UNCHANGED caller
          ELSE /\ caller' = [caller EXCEPT ![c] =
                      [pc |-> "checkJobs", txHash |-> h, blockHeight |-> bh, expiry |-> e,
                       inMempool |-> m, isJobRunning |-> FALSE]]
               /\ UNCHANGED ret
    /\ UNCHANGED <<lockVars, call, clientOK, crashed, votingCache, voteParsingProgress, parsingJobs, job, scanVars>>

\* The call starts; a confirmed spend reads the cache under votingCacheMutex.RLock
GetTally_CheckCache(c) ==
    /\ ~crashed
    /\ caller[c].pc = "idle"
    /\ ncalls < MaxCalls
    /\ ncalls' = ncalls + 1
    /\ \E h \in Hashes, m \in BOOLEAN :
       \E bh \in (IF m THEN {0} ELSE BlockHeights), e \in (IF m THEN Expiries ELSE {0}) :
          IF ~m /\ h \in DOMAIN votingCache
          THEN /\ ret' = Return("cached", h, m, FALSE, votingCache[h])
               /\ UNCHANGED caller
          ELSE /\ caller' = [caller EXCEPT ![c] =
                      [pc |-> "checkJobs", txHash |-> h, blockHeight |-> bh, expiry |-> e,
                       inMempool |-> m, isJobRunning |-> FALSE]]
               /\ UNCHANGED ret
    /\ UNCHANGED <<lockVars, call, clientOK, crashed, votingCache, voteParsingProgress, parsingJobs, job, scanVars>>

\* GetTally_CheckJobs with the launch branch testing only !isJobRunning
GetTally_CheckJobsLaunchAny(c) ==
    /\ ~crashed
    /\ caller[c].pc = "checkJobs"
    /\ LET running == JobRunning(caller[c].txHash)
       IN caller' = [caller EXCEPT ![c].isJobRunning = running,
                        ![c].pc = IF running THEN "readProgress" ELSE "launch"]
    /\ UNCHANGED <<lockVars, call, clientOK, crashed, votingCache, voteParsingProgress, parsingJobs, ret,
                   ncalls, job, scanVars>>

\* GetTally_CheckJobs with one single-flight domain for all hashes
GetTally_CheckJobsGlobal(c) ==
    /\ ~crashed
    /\ caller[c].pc = "checkJobs"
    /\ LET running == \E h \in DOMAIN parsingJobs : JobRunning(h)
       IN caller' = [caller EXCEPT ![c].isJobRunning = running,
                        ![c].pc = IF running THEN "readProgress"
                                  ELSE IF ~caller[c].inMempool THEN "launch"
                                  ELSE "compute"]
    /\ UNCHANGED <<lockVars, call, clientOK, crashed, votingCache, voteParsingProgress, parsingJobs, ret,
                   ncalls, job, scanVars>>

\* isJobRunning := parsingJobs[txHash] under jobsMutex.RLock
GetTally_CheckJobs(c) ==
    /\ ~crashed
    /\ caller[c].pc = "checkJobs"
    /\ LET running == JobRunning(caller[c].txHash)
       IN caller' = [caller EXCEPT ![c].isJobRunning = running,
                        ![c].pc = IF running THEN "readProgress"
                                  ELSE IF ~caller[c].inMempool THEN "launch"
                                  ELSE "compute"]
    /\ UNCHANGED <<lockVars, call, clientOK, crashed, votingCache, voteParsingProgress, parsingJobs, ret,
                   ncalls, job, scanVars>>

\* the partial result built from a progress record
Snapshot(p, blockHeight, mempool) ==
    VotingInfo(p.CurrentBlock -
                   GoDiv((p.CurrentBlock - blockHeight + VotingInterval) * p.Progress.num,
                         p.Progress.den * 100),
               blockHeight, p.YesVotes, p.NoVotes, 0, 0, FALSE, ~p.IsParsing, mempool)

\* isJobRunning: read voteParsingProgress[txHash] under progressMutex.RLock
GetTally_ReadProgress(c) ==
    /\ ~crashed
    /\ caller[c].pc = "readProgress"
    /\ LET h == caller[c].txHash
       IN IF h \in DOMAIN voteParsingProgress
          THEN /\ ret' =
                     Return("snapshot", h, caller[c].inMempool, FALSE,
                            Snapshot(voteParsingProgress[h], caller[c].blockHeight,
                                     caller[c].inMempool))
               /\ caller' = [caller EXCEPT ![c] = IdleCaller]
          ELSE /\ caller' = [caller EXCEPT ![c].pc = "compute"]
               /\ UNCHANGED ret
    /\ UNCHANGED <<lockVars, call, clientOK, crashed, votingCache, voteParsingProgress, parsingJobs,
                   ncalls, job, scanVars>>

\* the lowest goroutine slot not yet used
FreeJob == CHOOSE j \in JobIds : job[j].pc = "unused" /\ \A i \in 1..(j - 1) : job[i].pc # "unused"

\* GetTally_Launch without the registration in parsingJobs
GetTally_LaunchNoRegister(c) ==
    /\ ~crashed
    /\ caller[c].pc = "launch"
    /\ \E j \in JobIds : job[j].pc = "unused"
    /\ LET h == caller[c].txHash
           bh == caller[c].blockHeight
       IN /\ UNCHANGED parsingJobs
          /\ job' = [job EXCEPT ![FreeJob] =
                        [UnusedJob EXCEPT !.pc = "start", !.txHash = h, !.blockHeight = bh]]
          /\ ret' =
                        Return("placeholder", h, FALSE, FALSE,
                               VotingInfo(bh - VotingInterval, bh, 0, 0, 0, 0, FALSE, FALSE,
                                          caller[c].inMempool))
    /\ caller' = [caller EXCEPT ![c] = IdleCaller]
    /\ UNCHANGED <<lockVars, call, clientOK, crashed, votingCache, voteParsingProgress, ncalls, scanVars>>

\* !inMempool && !isJobRunning: register under jobsMutex.Lock, go calculateTSpendVotesAsync,
\* return the empty initial state
GetTally_Launch(c) ==
    /\ ~crashed
    /\ caller[c].pc = "launch"
    /\ \E j \in JobIds : job[j].pc = "unused"
    /\ LET h == caller[c].txHash
           bh == caller[c].blockHeight
       IN /\ parsingJobs' = MapPut(parsingJobs, h, TRUE)
          /\ job' = [job EXCEPT ![FreeJob] =
                        [UnusedJob EXCEPT !.pc = "start", !.txHash = h, !.blockHeight = bh]]
          /\ ret' =
                        Return("placeholder", h, FALSE, FALSE,
                               VotingInfo(bh - VotingInterval, bh, 0, 0, 0, 0, FALSE, FALSE,
                                          caller[c].inMempool))
    /\ caller' = [caller EXCEPT ![c] = IdleCaller]
    /\ UNCHANGED <<lockVars, call, clientOK, crashed, votingCache, voteParsingProgress, ncalls, scanVars>>

\* the range countTSpendVotesInRange scans of a window
ScanFrom(start, end) == IF end - start > maxScanRange THEN end - maxScanRange ELSE start
BlocksScanned(start, end) == IF end >= ScanFrom(start, end) THEN end - ScanFrom(start, end) + 1 ELSE 0

\* calculateTSpendVotes: the synchronous computation, in the caller
calculateTSpendVotes(c) ==
    /\ ~crashed
    /\ caller[c].pc = "compute"
    /\ LET h == caller[c].txHash
           m == caller[c].inMempool
       IN IF ~clientOK
          THEN ret' = Return("error", h, m, FALSE, ZeroInfo)
          ELSE \E tip \in Tips \cup {-1} :
               IF tip = -1     \* GetBlockCount failed
               THEN ret' = Return("error", h, m, TRUE, ZeroInfo)
               ELSE LET votingStartBlock ==
                            IF m THEN Max(tip - VotingInterval, 0)
                            ELSE Max(caller[c].blockHeight - VotingInterval,
                                     TreasuryActivationHeight)
                        votingEndBlock == IF m THEN caller[c].expiry ELSE caller[c].blockHeight
                        eligibleVotes == (votingEndBlock - votingStartBlock) * VotesPerBlockEstimate
                    IN \E v \in LedgerVotes :
                         /\ v[1] + v[2] <= BlocksScanned(votingStartBlock, votingEndBlock)
                         /\ ret' =
                               [Return("computed", h, m, TRUE,
                                       FinalInfo(votingStartBlock, votingEndBlock, v[1], v[2],
                                                 eligibleVotes, ~m, m))
                                   EXCEPT !.blockHeight = caller[c].blockHeight,
                                          !.tip = tip, !.expiry = caller[c].expiry,
                                          !.scanFrom = ScanFrom(votingStartBlock, votingEndBlock),
                                          !.visited =
                                              BlocksScanned(votingStartBlock, votingEndBlock)]
    /\ caller' = [caller EXCEPT ![c] = IdleCaller]
    /\ UNCHANGED <<lockVars, call, clientOK, crashed, votingCache, voteParsingProgress, parsingJobs,
                   ncalls, job, scanVars>>


(* ---------------- calculateTSpendVotesAsync ---------------- *)
\* Async_Start with the cleanup at the end of the function instead of deferred:
\* the early return skips it
Async_StartNoDefer(j) ==
    /\ ~crashed
    /\ job[j].pc = "start"
    /\ IF ~clientOK
       THEN /\ job' = [job EXCEPT ![j] = [UnusedJob EXCEPT !.pc = "done",
                                              !.txHash = job[j].txHash,
                                              !.blockHeight = job[j].blockHeight]]
            /\ UNCHANGED voteParsingProgress
       ELSE LET votingStartBlock == Max(job[j].blockHeight - VotingInterval,
                                        TreasuryActivationHeight)
                votingEndBlock == job[j].blockHeight
                totalBlocks == votingEndBlock - votingStartBlock + 1
                from == IF votingEndBlock - votingStartBlock > maxScanRange
                        THEN votingEndBlock - maxScanRange ELSE votingStartBlock
            IN /\ voteParsingProgress' = MapPut(voteParsingProgress, job[j].txHash,
                      ParsingProgress(TRUE, Pct(0, 1), votingStartBlock, totalBlocks, 0, 0))
               /\ job' = [job EXCEPT ![j].votingStartBlock = from,
                                     ![j].votingEndBlock = votingEndBlock,
                                     ![j].totalBlocks = totalBlocks,
                                     ![j].height = from,
                                     ![j].pc = IF from <= votingEndBlock THEN "loop" ELSE "final"]
    /\ UNCHANGED <<lockVars, call, clientOK, crashed, votingCache, parsingJobs, caller, ret, ncalls, scanVars>>

\* Async_Start with the window start not raised to TreasuryActivationHeight
Async_StartNoFloor(j) ==
    /\ ~crashed
    /\ job[j].pc = "start"
    /\ IF ~clientOK
       THEN /\ job' = [job EXCEPT ![j].pc = "cleanup"]
            /\ UNCHANGED voteParsingProgress
       ELSE LET votingStartBlock == job[j].blockHeight - VotingInterval
                votingEndBlock == job[j].blockHeight
                totalBlocks == votingEndBlock - votingStartBlock + 1
                from == ScanFrom(votingStartBlock, votingEndBlock)
            IN /\ voteParsingProgress' = MapPut(voteParsingProgress, job[j].txHash,
                      ParsingProgress(TRUE, Pct(0, 1), votingStartBlock, totalBlocks, 0, 0))
               /\ job' = [job EXCEPT ![j].votingStartBlock = from,
                                     ![j].votingEndBlock = votingEndBlock,
                                     ![j].totalBlocks = totalBlocks,
                                     ![j].height = from,
                                     ![j].pc = IF from <= votingEndBlock THEN "loop" ELSE "final"]
    /\ UNCHANGED <<lockVars, call, clientOK, crashed, votingCache, parsingJobs, caller, ret, ncalls, scanVars>>

\* Entry: without a client the function returns at once (the deferred cleanup
\* is still to run); otherwise the window is derived and the initial progress
\* record written under progressMutex.Lock
Async_Start(j) ==
    /\ ~crashed
    /\ job[j].pc = "start"
    /\ IF ~clientOK
       THEN /\ job' = [job EXCEPT ![j].pc = "cleanup"]
            /\ UNCHANGED voteParsingProgress
       ELSE LET votingStartBlock == Max(job[j].blockHeight - VotingInterval,
                                        TreasuryActivationHeight)
                votingEndBlock == job[j].blockHeight
                totalBlocks == votingEndBlock - votingStartBlock + 1
                from == ScanFrom(votingStartBlock, votingEndBlock)
            IN /\ voteParsingProgress' = MapPut(voteParsingProgress, job[j].txHash,
                      ParsingProgress(TRUE, Pct(0, 1), votingStartBlock, totalBlocks, 0, 0))
               /\ job' = [job EXCEPT ![j].votingStartBlock = from,
                                     ![j].votingEndBlock = votingEndBlock,
                                     ![j].totalBlocks = totalBlocks,
                                     ![j].height = from,
                                     ![j].pc = IF from <= votingEndBlock THEN "loop" ELSE "final"]
    /\ UNCHANGED <<lockVars, call, clientOK, crashed, votingCache, parsingJobs, caller, ret, ncalls, scanVars>>

\* One iteration of the loop over the window: a failed fetch skips the rest of
\* the iteration; otherwise the votes are counted and, every 50 blocks and at
\* the last block, the progress record is replaced
Async_Block(j) ==
    /\ ~crashed
    /\ job[j].pc = "loop"
    /\ \E a \in BlockAnswers :
         /\ <<job[j].yesVotes + a[2], job[j].noVotes + a[3]>> \in LedgerVotes
         /\ LET height == job[j].height
                yes == job[j].yesVotes + a[2]
                no == job[j].noVotes + a[3]
                next == IF height + 1 <= job[j].votingEndBlock THEN "loop" ELSE "final"
            IN
            IF a[1] = "fail"
            THEN /\ job' = [job EXCEPT ![j].height = height + 1, ![j].pc = next]
                 /\ UNCHANGED voteParsingProgress
            ELSE /\ job' = [job EXCEPT ![j].height = height + 1, ![j].pc = next,
                                       ![j].yesVotes = yes, ![j].noVotes = no]
                 /\ IF height % ProgressEvery = 0 \/ height = job[j].votingEndBlock
                    THEN voteParsingProgress' = MapPut(voteParsingProgress, job[j].txHash,
                             ParsingProgress(height < job[j].votingEndBlock,
                                             Pct(height - job[j].votingStartBlock + 1,
                                                 job[j].totalBlocks),
                                             height, job[j].totalBlocks, yes, no))
                    ELSE UNCHANGED voteParsingProgress
    /\ UNCHANGED <<lockVars, call, clientOK, crashed, votingCache, parsingJobs, caller, ret, ncalls, scanVars>>

\* finalResult that takes the counts for the hash from the progress record
finalResultFromProgress(j) ==
    LET p == voteParsingProgress[job[j].txHash]
    IN FinalInfo(job[j].votingStartBlock, job[j].votingEndBlock, p.YesVotes, p.NoVotes,
                 job[j].totalBlocks * VotesPerBlockEstimate, TRUE, FALSE)

\* the final result of a job
finalResult(j) ==
    FinalInfo(job[j].votingStartBlock, job[j].votingEndBlock, job[j].yesVotes, job[j].noVotes,
              job[j].totalBlocks * VotesPerBlockEstimate, TRUE, FALSE)

\* Async_CacheResult with the cache write left out
Async_CacheResultSkipped(j) ==
    /\ ~crashed
    /\ job[j].pc = "final"
    /\ UNCHANGED votingCache
    /\ job' = [job EXCEPT ![j].pc = "markComplete"]
    /\ UNCHANGED <<lockVars, call, clientOK, crashed, voteParsingProgress, parsingJobs, caller, ret, ncalls,
                   scanVars>>

\* votingCache[txHash] = finalResult under votingCacheMutex.Lock
Async_CacheResult(j) ==
    /\ ~crashed
    /\ job[j].pc = "final"
    /\ votingCache' = MapPut(votingCache, job[j].txHash, finalResult(j))
    /\ job' = [job EXCEPT ![j].pc = "markComplete"]
    /\ UNCHANGED <<lockVars, call, clientOK, crashed, voteParsingProgress, parsingJobs, caller, ret, ncalls,
                   scanVars>>

\* the 100% progress record under progressMutex.Lock
Async_MarkComplete(j) ==
    /\ ~crashed
    /\ job[j].pc = "markComplete"
    /\ voteParsingProgress' = MapPut(voteParsingProgress, job[j].txHash,
           ParsingProgress(FALSE, Pct(1, 1), job[j].votingEndBlock, job[j].totalBlocks,
                           job[j].yesVotes, job[j].noVotes))
    /\ job' = [job EXCEPT ![j].pc = "cleanup"]
    /\ UNCHANGED <<lockVars, call, clientOK, crashed, votingCache, parsingJobs, caller, ret, ncalls, scanVars>>

\* the deferred function: delete(parsingJobs, txHash) under jobsMutex.Lock;
\* the goroutine ends and its locals are gone
Async_Cleanup(j) ==
    /\ ~crashed
    /\ job[j].pc = "cleanup"
    /\ parsingJobs' = MapDelete(parsingJobs, job[j].txHash)
    /\ job' = [job EXCEPT ![j] = [UnusedJob EXCEPT !.pc = "done", !.txHash = job[j].txHash,
                                                   !.blockHeight = job[j].blockHeight]]
    /\ UNCHANGED <<lockVars, call, clientOK, crashed, votingCache, voteParsingProgress, caller, ret, ncalls,
                   scanVars>>

(* ---------------- historical scanner ---------------- *)
ScanIds == 1..MaxScans
\* startHeight arguments: below the floor, inside the range, above every tip
StartHeights == {0, TreasuryActivationHeight + 1, TreasuryActivationHeight + MaxScanSpan + 1}
\* chain tips GetBlockCount may report to a scan
ScanTips == {TreasuryActivationHeight, TreasuryActivationHeight + MaxScanSpan}

\* locals of one scan: the loop variable h, the transactions of the block at h
\* and the index k of the one being recorded; fault remembers whether a fetch
\* has failed so far and whether a spend was recorded after that
UnusedScan == [pc |-> "unused", startHeight |-> 0, currentHeight |-> 0, h |-> 0,
               txs |-> <<>>, k |-> 0, fault |-> "none"]
\* a scan ends "done" after its loop, "aborted" when GetBlockCount failed
ActiveScanPcs == {"getTip", "setHeight", "append", "finish"}
ActiveScans == {i \in ScanIds : scan[i].pc \in ActiveScanPcs}
FreeScan == CHOOSE i \in ScanIds :
                scan[i].pc = "unused" /\ \A k \in 1..(i - 1) : scan[k].pc # "unused"

\* TriggerHistoricalScan without the isScanRunning test
TriggerNoGuard(startHeight) ==
    /\ ~crashed
    /\ \E i \in ScanIds : scan[i].pc = "unused"
    /\ isScanRunning' = TRUE
    /\ currentScanHeight' = Max(startHeight, TreasuryActivationHeight)
    /\ tspendFoundCount' = 0
    /\ scanResults' = <<>>
    /\ newTSpendBuffer' = <<>>
    /\ scan' = [scan EXCEPT ![FreeScan] =
                   [UnusedScan EXCEPT !.pc = "getTip",
                       !.startHeight = Max(startHeight, TreasuryActivationHeight)]]
    /\ triggerErr' = "nil"
    /\ drained' = <<>>
    /\ results' = [results EXCEPT !.list = <<>>]
    /\ UNCHANGED <<lockVars, call, clientOK, crashed, tallyVars, totalScanHeight>>

\* TriggerHistoricalScan resetting the counters and lists before it tests isScanRunning
TriggerResetsFirst(startHeight) ==
    IF isScanRunning
    THEN /\ ~crashed
         /\ triggerErr' = "scan already in progress"
         /\ tspendFoundCount' = 0
         /\ scanResults' = <<>>
         /\ newTSpendBuffer' = <<>>
         /\ UNCHANGED <<lockVars, call, clientOK, crashed, tallyVars, isScanRunning, currentScanHeight,
                        totalScanHeight, scan, drained, results>>
    ELSE /\ ~crashed
         /\ \E i \in ScanIds : scan[i].pc = "unused"
         /\ isScanRunning' = TRUE
         /\ currentScanHeight' = Max(startHeight, TreasuryActivationHeight)
         /\ tspendFoundCount' = 0
         /\ scanResults' = <<>>
         /\ newTSpendBuffer' = <<>>
         /\ scan' = [scan EXCEPT ![FreeScan] =
                        [UnusedScan EXCEPT !.pc = "getTip",
                            !.startHeight = Max(startHeight, TreasuryActivationHeight)]]
         /\ triggerErr' = "nil"
         /\ drained' = <<>>
         /\ results' = [results EXCEPT !.list = <<>>]
         /\ UNCHANGED <<lockVars, call, clientOK, crashed, tallyVars, totalScanHeight>>

\* TriggerHistoricalScan: one section under scanMutex.Lock, then go scanHistoricalTSpendsBackground
TriggerHistoricalScan(startHeight) ==
    IF isScanRunning
    THEN /\ ~crashed
         /\ triggerErr' = "scan already in progress"
         /\ UNCHANGED <<lockVars, call, clientOK, crashed, tallyVars, isScanRunning, currentScanHeight,
                        totalScanHeight, tspendFoundCount, scanResults, newTSpendBuffer,
                        scan, drained,
                   results>>
    ELSE /\ ~crashed
         /\ \E i \in ScanIds : scan[i].pc = "unused"
         /\ isScanRunning' = TRUE
         /\ currentScanHeight' = Max(startHeight, TreasuryActivationHeight)
         /\ tspendFoundCount' = 0
         /\ scanResults' = <<>>
         /\ newTSpendBuffer' = <<>>
         /\ scan' = [scan EXCEPT ![FreeScan] =
                        [UnusedScan EXCEPT !.pc = "getTip",
                            !.startHeight = Max(startHeight, TreasuryActivationHeight)]]
         /\ triggerErr' = "nil"
         /\ drained' = <<>>
         /\ results' = [results EXCEPT !.list = <<>>]
         /\ UNCHANGED <<lockVars, call, clientOK, crashed, tallyVars, totalScanHeight>>

\* AfterHeight with the loop condition h < currentHeight: the tip itself is left out
AfterHeightExclusive(i, h) ==
    IF h + 1 < scan[i].currentHeight
    THEN [scan[i] EXCEPT !.pc = "setHeight", !.h = h + 1, !.txs = <<>>, !.k = 0]
    ELSE [scan[i] EXCEPT !.pc = "finish", !.txs = <<>>, !.k = 0]

\* where the loop over heights goes after height h
AfterHeight(i, h) ==
    IF h + 1 <= scan[i].currentHeight
    THEN [scan[i] EXCEPT !.pc = "setHeight", !.h = h + 1, !.txs = <<>>, !.k = 0]
    ELSE [scan[i] EXCEPT !.pc = "finish", !.txs = <<>>, !.k = 0]

\* Scan_GetTip returning on a failed GetBlockCount without clearing isScanRunning
Scan_GetTipKeepFlag(i) ==
    /\ ~crashed
    /\ scan[i].pc = "getTip"
    /\ IF ~clientOK
       THEN /\ crashed' = TRUE
            /\ UNCHANGED <<isScanRunning, totalScanHeight, scan>>
       ELSE /\ UNCHANGED crashed
            /\ \E tip \in ScanTips \cup {-1} :
                 IF tip = -1
                 THEN /\ isScanRunning' = isScanRunning
                      /\ scan' = [scan EXCEPT ![i] = [UnusedScan EXCEPT !.pc = "aborted"]]
                      /\ UNCHANGED totalScanHeight
                 ELSE /\ totalScanHeight' = tip
                      /\ scan' = [scan EXCEPT ![i] =
                             IF scan[i].startHeight <= tip
                             THEN [scan[i] EXCEPT !.pc = "setHeight", !.currentHeight = tip,
                                                  !.h = scan[i].startHeight]
                             ELSE [scan[i] EXCEPT !.pc = "finish", !.currentHeight = tip]]
                      /\ UNCHANGED isScanRunning
    /\ UNCHANGED <<lockVars, call, clientOK, tallyVars, currentScanHeight, tspendFoundCount, scanResults,
                   newTSpendBuffer, triggerErr, drained,
                   results>>

\* scanHistoricalTSpendsBackground: GetBlockCount. A nil client is dereferenced,
\* which panics in a goroutine nobody recovers. A failed fetch clears the
\* running flag; otherwise totalScanHeight is set under scanMutex.Lock
Scan_GetTip(i) ==
    /\ ~crashed
    /\ scan[i].pc = "getTip"
    /\ IF ~clientOK
       THEN /\ crashed' = TRUE
            /\ UNCHANGED <<isScanRunning, totalScanHeight, scan>>
       ELSE /\ UNCHANGED crashed
            /\ \E tip \in ScanTips \cup {-1} :
                 IF tip = -1
                 THEN /\ isScanRunning' = FALSE
                      /\ scan' = [scan EXCEPT ![i] = [UnusedScan EXCEPT !.pc = "aborted"]]
                      /\ UNCHANGED totalScanHeight
                 ELSE /\ totalScanHeight' = tip
                      /\ scan' = [scan EXCEPT ![i] =
                             IF scan[i].startHeight <= tip
                             THEN [scan[i] EXCEPT !.pc = "setHeight", !.currentHeight = tip,
                                                  !.h = scan[i].startHeight]
                             ELSE [scan[i] EXCEPT !.pc = "finish", !.currentHeight = tip]]
                      /\ UNCHANGED isScanRunning
    /\ UNCHANGED <<lockVars, call, clientOK, tallyVars, currentScanHeight, tspendFoundCount, scanResults,
                   newTSpendBuffer, triggerErr, drained,
                   results>>

\* what getTransaction and isTreasurySpend make of one transaction of a block:
\* the fetch fails, it is no treasury spend, or it is one
TxOutcomes == {"fail", "other", "spend"}
\* the transactions of one block, in the order the inner loop takes them
BlockTxs == {<<>>, <<"other">>, <<"spend">>, <<"fail", "spend">>, <<"spend", "fail">>,
             <<"spend", "spend">>}
\* one height as the ledger answers it: GetBlockHash, getblock or the parse
\* fails, or the block's transactions (tx then stx) are listed
ScanBlockAnswers == {<<"fail", <<>>>>} \cup {<<"ok", t>> : t \in BlockTxs}

\* the inner loop from index k on: the next transaction that is a spend (0: none)
NextSpend(txs, k) ==
    IF \E n \in k..Len(txs) : txs[n] = "spend"
    THEN CHOOSE n \in k..Len(txs) :
             txs[n] = "spend" /\ \A m \in k..(n - 1) : txs[m] # "spend"
    ELSE 0
\* a getTransaction failed among the transactions the inner loop passes from
\* index k up to the next spend
FailedBefore(txs, k) ==
    LET n == NextSpend(txs, k)
    IN \E m \in k..(IF n = 0 THEN Len(txs) ELSE n - 1) : txs[m] = "fail"

\* Scan_SetHeight leaving the loop, instead of continuing, when a block fetch fails
Scan_SetHeightBreak(i) ==
    /\ ~crashed
    /\ scan[i].pc = "setHeight"
    /\ currentScanHeight' = scan[i].h
    /\ \E a \in ScanBlockAnswers :
         LET txs == a[2]
             k == NextSpend(txs, 1)
             fault == AfterFailure(scan[i].fault, a[1] = "fail" \/ FailedBefore(txs, 1))
         IN scan' = [scan EXCEPT ![i] =
                        IF k > 0
                        THEN [scan[i] EXCEPT !.pc = "append", !.txs = txs, !.k = k,
                                             !.fault = fault]
                        ELSE IF a[1] = "fail"
                        THEN [scan[i] EXCEPT !.pc = "finish", !.fault = fault]
                        ELSE [AfterHeight(i, scan[i].h) EXCEPT !.fault = fault]]
    /\ UNCHANGED <<lockVars, call, clientOK, crashed, tallyVars, isScanRunning, totalScanHeight,
                   tspendFoundCount, scanResults, newTSpendBuffer, triggerErr, drained,
                   results>>

\* Top of one iteration: currentScanHeight = h under scanMutex.Lock; then the
\* block is fetched (a failure continues with the next height) and its
\* transactions are fetched one by one up to the first treasury spend
Scan_SetHeight(i) ==
    /\ ~crashed
    /\ scan[i].pc = "setHeight"
    /\ currentScanHeight' = scan[i].h
    /\ \E a \in ScanBlockAnswers :
         LET txs == a[2]
             k == NextSpend(txs, 1)
             fault == AfterFailure(scan[i].fault, a[1] = "fail" \/ FailedBefore(txs, 1))
         IN scan' = [scan EXCEPT ![i] =
                        IF k > 0
                        THEN [scan[i] EXCEPT !.pc = "append", !.txs = txs, !.k = k,
                                             !.fault = fault]
                        ELSE [AfterHeight(i, scan[i].h) EXCEPT !.fault = fault]]
    /\ UNCHANGED <<lockVars, call, clientOK, crashed, tallyVars, isScanRunning, totalScanHeight,
                   tspendFoundCount, scanResults, newTSpendBuffer, triggerErr, drained,
                   results>>

\* types.TSpendHistory of the k-th transaction of block h
History(h, k) == [TxHash |-> <<h, k>>, BlockHeight |-> h, VoteResult |-> "approved"]

\* Scan_Append that appends the record to both lists and leaves the counter alone
Scan_AppendNoCount(i) ==
    /\ ~crashed
    /\ scan[i].pc = "append"
    /\ LET history == History(scan[i].h, scan[i].k)
       IN /\ scanResults' = Append(scanResults, history)
          /\ newTSpendBuffer' = Append(newTSpendBuffer, history)
          /\ tspendFoundCount' = tspendFoundCount
    /\ LET k == NextSpend(scan[i].txs, scan[i].k + 1)
           fault == AfterFailure(AfterFound(scan[i].fault),
                                 FailedBefore(scan[i].txs, scan[i].k + 1))
       IN scan' = [scan EXCEPT ![i] =
                      IF k > 0 THEN [scan[i] EXCEPT !.k = k, !.fault = fault]
                      ELSE [AfterHeight(i, scan[i].h) EXCEPT !.fault = fault]]
    /\ UNCHANGED <<lockVars, call, clientOK, crashed, tallyVars, isScanRunning, currentScanHeight,
                   totalScanHeight, triggerErr, drained,
                   results>>

\* a spend was found: one section under scanMutex.Lock; then the inner loop
\* goes on to the next spend of the block, or the outer loop to the next height
Scan_Append(i) ==
    /\ ~crashed
    /\ scan[i].pc = "append"
    /\ LET history == History(scan[i].h, scan[i].k)
       IN /\ scanResults' = Append(scanResults, history)
          /\ newTSpendBuffer' = Append(newTSpendBuffer, history)
          /\ tspendFoundCount' = tspendFoundCount + 1
    /\ LET k == NextSpend(scan[i].txs, scan[i].k + 1)
           fault == AfterFailure(AfterFound(scan[i].fault),
                                 FailedBefore(scan[i].txs, scan[i].k + 1))
       IN scan' = [scan EXCEPT ![i] =
                      IF k > 0 THEN [scan[i] EXCEPT !.k = k, !.fault = fault]
                      ELSE [AfterHeight(i, scan[i].h) EXCEPT !.fault = fault]]
    /\ UNCHANGED <<lockVars, call, clientOK, crashed, tallyVars, isScanRunning, currentScanHeight,
                   totalScanHeight, triggerErr, drained,
                   results>>

\* after the loop: isScanRunning = false under scanMutex.Lock
Scan_Finish(i) ==
    /\ ~crashed
    /\ scan[i].pc = "finish"
    /\ isScanRunning' = FALSE
    /\ scan' = [scan EXCEPT ![i] = [UnusedScan EXCEPT !.pc = "done"]]
    /\ UNCHANGED <<lockVars, call, clientOK, crashed, tallyVars, currentScanHeight, totalScanHeight,
                   tspendFoundCount, scanResults, newTSpendBuffer, triggerErr, drained,
                   results>>

\* what GetScanProgress returns when it runs in the current state
ScanProgressResult ==
    [IsScanning |-> isScanRunning,
     CurrentHeight |-> currentScanHeight,
     TotalHeight |-> totalScanHeight,
     Progress |-> IF totalScanHeight > TreasuryActivationHeight
                  THEN Pct(currentScanHeight - TreasuryActivationHeight,
                           totalScanHeight - TreasuryActivationHeight)
                  ELSE Pct(0, 1),
     TSpendFound |-> tspendFoundCount,
     NewTSpends |-> newTSpendBuffer]

\* GetScanProgress that copies the buffer out and does not clear it
GetScanProgressNoClear ==
    /\ ~crashed
    /\ drained' = drained \o ScanProgressResult.NewTSpends
    /\ UNCHANGED <<lockVars, call, clientOK, crashed, tallyVars, isScanRunning, currentScanHeight,
                   totalScanHeight, tspendFoundCount, scanResults, newTSpendBuffer, scan,
                   triggerErr, results>>

\* GetScanProgress: one section under scanMutex.Lock; the buffer is copied out and cleared
GetScanProgress ==
    /\ ~crashed
    /\ drained' = drained \o ScanProgressResult.NewTSpends
    /\ newTSpendBuffer' = <<>>
    /\ UNCHANGED <<lockVars, call, clientOK, crashed, tallyVars, isScanRunning, currentScanHeight,
                   totalScanHeight, tspendFoundCount, scanResults, scan, triggerErr, results>>

\* GetScanResults returning the list only when no scan is running
GetScanResultsIdleOnly ==
    /\ ~crashed
    /\ results' = [list |-> IF isScanRunning THEN <<>> ELSE scanResults, tick |-> ~results.tick]
    /\ UNCHANGED <<lockVars, call, clientOK, crashed, tallyVars, isScanRunning, currentScanHeight,
                   totalScanHeight, tspendFoundCount, scanResults, newTSpendBuffer, scan,
                   triggerErr, drained>>

\* GetScanResults: a copy of scanResults made under scanMutex.RLock; tick
\* tells one return from the next
GetScanResults ==
    /\ ~crashed
    /\ results' = [list |-> scanResults, tick |-> ~results.tick]
    /\ UNCHANGED <<lockVars, call, clientOK, crashed, tallyVars, isScanRunning, currentScanHeight,
                   totalScanHeight, tspendFoundCount, scanResults, newTSpendBuffer, scan,
                   triggerErr, drained>>

(* ---------------- the four locks ---------------- *)
\* In the actions above every section between a Lock and its Unlock is one
\* step, so no lock is held between two steps. Here the same functions are
\* followed statement by statement as far as the locks are concerned: what a
\* test decides and what an assignment stores is left open, so each thread
\* takes every path through its function.
Mutexes == {"scanMutex", "votingCacheMutex", "progressMutex", "jobsMutex"}
ThreadIds == {"t1", "t2", "t3"}

\* a statement: what it does, the mutex it names, the lines control goes to next
Stmt(op, m, next) == [op |-> op, m |-> m, next |-> next]

TriggerHistoricalScanCode ==
    548 :> Stmt("Lock", "scanMutex", {549})
    @@ 549 :> Stmt("test", "", {550, 564})           \* if isScanRunning
    @@ 550 :> Stmt("Unlock", "scanMutex", {551})
    @@ 551 :> Stmt("return", "", {})
    @@ 564 :> Stmt("Unlock", "scanMutex", {566})     \* after the assignments of 553-563
    @@ 566 :> Stmt("go", "", {567})
    @@ 567 :> Stmt("return", "", {})

scanHistoricalTSpendsBackgroundCode ==
    574 :> Stmt("ledger", "", {577, 583})            \* GetBlockCount; if err != nil
    @@ 577 :> Stmt("Lock", "scanMutex", {579})
    @@ 579 :> Stmt("Unlock", "scanMutex", {580})
    @@ 580 :> Stmt("return", "", {})
    @@ 583 :> Stmt("Lock", "scanMutex", {585})
    @@ 585 :> Stmt("Unlock", "scanMutex", {589})
    @@ 589 :> Stmt("test", "", {591, 643})           \* h <= currentHeight
    @@ 591 :> Stmt("Lock", "scanMutex", {593})
    @@ 593 :> Stmt("Unlock", "scanMutex", {595})
    @@ 595 :> Stmt("ledger", "", {589, 601})         \* GetBlockHash; continue
    @@ 601 :> Stmt("ledger", "", {589, 618})         \* getblock; continue
    @@ 618 :> Stmt("test", "", {589, 622})           \* json.Unmarshal; continue
    @@ 622 :> Stmt("test", "", {589, 624})           \* range allTxs
    @@ 624 :> Stmt("ledger", "", {622, 629})         \* getTransaction; continue
    @@ 629 :> Stmt("test", "", {622, 632})           \* isTreasurySpend, history != nil
    @@ 632 :> Stmt("Lock", "scanMutex", {637})
    @@ 637 :> Stmt("Unlock", "scanMutex", {622})
    @@ 643 :> Stmt("Lock", "scanMutex", {645})
    @@ 645 :> Stmt("Unlock", "scanMutex", {648})
    @@ 648 :> Stmt("return", "", {})

GetScanProgressCode ==
    652 :> Stmt("Lock", "scanMutex", {674})
    @@ 674 :> Stmt("Unlock", "scanMutex", {683})     \* deferred at 653, runs at the return
    @@ 683 :> Stmt("return", "", {})

GetScanResultsCode ==
    687 :> Stmt("RLock", "scanMutex", {693})
    @@ 693 :> Stmt("RUnlock", "scanMutex", {694})    \* deferred at 688, runs at the return
    @@ 694 :> Stmt("return", "", {})

\* GetTSpendVotingInfo holding jobsMutex while it reads the progress record
GetTSpendVotingInfoNested ==
    709 :> Stmt("test", "", {710, 719})
    @@ 710 :> Stmt("RLock", "votingCacheMutex", {711})
    @@ 711 :> Stmt("test", "", {712, 715})
    @@ 712 :> Stmt("RUnlock", "votingCacheMutex", {713})
    @@ 713 :> Stmt("return", "", {})
    @@ 715 :> Stmt("RUnlock", "votingCacheMutex", {719})
    @@ 719 :> Stmt("RLock", "jobsMutex", {723})
    @@ 723 :> Stmt("test", "", {725, 744})
    @@ 725 :> Stmt("RLock", "progressMutex", {727})
    @@ 727 :> Stmt("RUnlock", "progressMutex", {721})
    @@ 721 :> Stmt("RUnlock", "jobsMutex", {729})
    @@ 729 :> Stmt("test", "", {731, 744})
    @@ 731 :> Stmt("return", "", {})
    @@ 744 :> Stmt("test", "", {745, 761})
    @@ 745 :> Stmt("Lock", "jobsMutex", {747})
    @@ 747 :> Stmt("Unlock", "jobsMutex", {749})
    @@ 749 :> Stmt("go", "", {752})
    @@ 752 :> Stmt("return", "", {})
    @@ 761 :> Stmt("ledger", "", {766})
    @@ 766 :> Stmt("return", "", {})

GetTSpendVotingInfoCode ==
    709 :> Stmt("test", "", {710, 719})              \* if !inMempool
    @@ 710 :> Stmt("RLock", "votingCacheMutex", {711})
    @@ 711 :> Stmt("test", "", {712, 715})           \* cached, ok
    @@ 712 :> Stmt("RUnlock", "votingCacheMutex", {713})
    @@ 713 :> Stmt("return", "", {})
    @@ 715 :> Stmt("RUnlock", "votingCacheMutex", {719})
    @@ 719 :> Stmt("RLock", "jobsMutex", {721})
    @@ 721 :> Stmt("RUnlock", "jobsMutex", {723})
    @@ 723 :> Stmt("test", "", {725, 744})           \* if isJobRunning
    @@ 725 :> Stmt("RLock", "progressMutex", {727})
    @@ 727 :> Stmt("RUnlock", "progressMutex", {729})
    @@ 729 :> Stmt("test", "", {731, 744})           \* if hasProgress
    @@ 731 :> Stmt("return", "", {})
    @@ 744 :> Stmt("test", "", {745, 761})           \* if !inMempool && !isJobRunning
    @@ 745 :> Stmt("Lock", "jobsMutex", {747})
    @@ 747 :> Stmt("Unlock", "jobsMutex", {749})
    @@ 749 :> Stmt("go", "", {752})
    @@ 752 :> Stmt("return", "", {})
    @@ 761 :> Stmt("ledger", "", {766})              \* calculateTSpendVotes: no lock in it
    @@ 766 :> Stmt("return", "", {})

GetVoteParsingProgressCode ==
    771 :> Stmt("RLock", "progressMutex", {775})
    @@ 775 :> Stmt("RUnlock", "progressMutex", {776}) \* deferred at 772, runs at the return
    @@ 776 :> Stmt("return", "", {})

calculateTSpendVotesAsyncCode ==
    869 :> Stmt("test", "", {864, 884})              \* if rpc.DcrdClient == nil: return
    @@ 884 :> Stmt("Lock", "progressMutex", {895})
    @@ 895 :> Stmt("Unlock", "progressMutex", {907})
    @@ 907 :> Stmt("test", "", {908, 990})           \* height <= votingEndBlock
    @@ 908 :> Stmt("ledger", "", {907, 913})         \* GetBlockHash; continue
    @@ 913 :> Stmt("ledger", "", {907, 924})         \* getblock; continue
    @@ 924 :> Stmt("test", "", {907, 929})           \* json.Unmarshal; continue
    @@ 929 :> Stmt("test", "", {930, 949})           \* range block.STx
    @@ 930 :> Stmt("ledger", "", {929})              \* getTransaction, then the vote
    @@ 949 :> Stmt("test", "", {907, 960})           \* height%50 == 0 || last block
    @@ 960 :> Stmt("Lock", "progressMutex", {971})
    @@ 971 :> Stmt("Unlock", "progressMutex", {907})
    @@ 990 :> Stmt("ledger", "", {1011})             \* getBlockTimestamps
    @@ 1011 :> Stmt("Lock", "votingCacheMutex", {1013})
    @@ 1013 :> Stmt("Unlock", "votingCacheMutex", {1016})
    @@ 1016 :> Stmt("Lock", "progressMutex", {1027})
    @@ 1027 :> Stmt("Unlock", "progressMutex", {864})
    @@ 864 :> Stmt("Lock", "jobsMutex", {866})       \* the deferred function of 862
    @@ 866 :> Stmt("Unlock", "jobsMutex", {867})
    @@ 867 :> Stmt("return", "", {})

\* the functions a thread may be executing, and the first statement of each
Functions == {"TriggerHistoricalScan", "scanHistoricalTSpendsBackground", "GetScanProgress",
              "GetScanResults", "GetTSpendVotingInfo", "GetVoteParsingProgress",
              "calculateTSpendVotesAsync"}
Code(fn) ==
    CASE fn = "TriggerHistoricalScan" -> TriggerHistoricalScanCode
      [] fn = "scanHistoricalTSpendsBackground" -> scanHistoricalTSpendsBackgroundCode
      [] fn = "GetScanProgress" -> GetScanProgressCode
      [] fn = "GetScanResults" -> GetScanResultsCode
      [] fn = "GetTSpendVotingInfo" -> GetTSpendVotingInfoCode
      [] fn = "GetVoteParsingProgress" -> GetVoteParsingProgressCode
      [] fn = "calculateTSpendVotesAsync" -> calculateTSpendVotesAsyncCode
Entry(fn) ==
    CASE fn = "TriggerHistoricalScan" -> 548
      [] fn = "scanHistoricalTSpendsBackground" -> 574
      [] fn = "GetScanProgress" -> 652
      [] fn = "GetScanResults" -> 687
      [] fn = "GetTSpendVotingInfo" -> 709
      [] fn = "GetVoteParsingProgress" -> 771
      [] fn = "calculateTSpendVotesAsync" -> 869

IdleThread == [fn |-> "idle", pc |-> 0]
\* a sync.RWMutex: the thread holding it for writing ("" for none), the threads
\* holding it for reading, and the threads blocked in Lock
FreeMutex == [writer |-> "", readers |-> {}, waiting |-> {}]
LocksFree ==
    /\ thread = [t \in ThreadIds |-> IdleThread]
    /\ mutex = [m \in Mutexes |-> FreeMutex]

Active(t) == thread[t].fn # "idle"
\* the statement thread t is at
At(t) == IF Active(t) THEN Code(thread[t].fn)[thread[t].pc] ELSE Stmt("idle", "", {})
Held(t) == {m \in Mutexes : mutex[m].writer = t \/ t \in mutex[m].readers}
Goto(t, line) == [thread EXCEPT ![t].pc = line]

\* sync.RWMutex: Lock returns once nobody holds the mutex; RLock returns once
\* no writer holds it and no Lock is blocked on it
CanLock(m) == mutex[m].writer = "" /\ mutex[m].readers = {}
CanRLock(m) == mutex[m].writer = "" /\ mutex[m].waiting = {}
CanStep(t) ==
    CASE At(t).op = "Lock" -> CanLock(At(t).m)
      [] At(t).op = "RLock" -> CanRLock(At(t).m)
      [] At(t).op = "idle" -> FALSE
      [] OTHER -> TRUE

\* a call comes in, or a goroutine starts running: any function, at any time
Thread_Call(t) ==
    /\ ~crashed /\ ~Active(t)
    /\ \E fn \in Functions : thread' = [thread EXCEPT ![t] = [fn |-> fn, pc |-> Entry(fn)]]
    /\ UNCHANGED <<mutex, call, clientOK, crashed, tallyVars, scanVars>>

\* Lock finds the mutex taken: the thread blocks, and readers arriving from
\* now on queue behind it
Thread_Block(t) ==
    /\ ~crashed /\ At(t).op = "Lock"
    /\ ~CanLock(At(t).m) /\ t \notin mutex[At(t).m].waiting
    /\ mutex' = [mutex EXCEPT ![At(t).m].waiting = @ \cup {t}]
    /\ UNCHANGED <<thread, call, clientOK, crashed, tallyVars, scanVars>>

Thread_Lock(t) ==
    /\ ~crashed /\ At(t).op = "Lock" /\ CanLock(At(t).m)
    /\ mutex' = [mutex EXCEPT ![At(t).m].writer = t, ![At(t).m].waiting = @ \ {t}]
    /\ \E line \in At(t).next : thread' = Goto(t, line)
    /\ UNCHANGED <<call, clientOK, crashed, tallyVars, scanVars>>

Thread_RLock(t) ==
    /\ ~crashed /\ At(t).op = "RLock" /\ CanRLock(At(t).m)
    /\ mutex' = [mutex EXCEPT ![At(t).m].readers = @ \cup {t}]
    /\ \E line \in At(t).next : thread' = Goto(t, line)
    /\ UNCHANGED <<call, clientOK, crashed, tallyVars, scanVars>>

\* Unlock and RUnlock of a mutex the thread does not hold are fatal errors in Go
Thread_Unlock(t) ==
    /\ ~crashed /\ At(t).op = "Unlock"
    /\ IF mutex[At(t).m].writer = t
       THEN /\ mutex' = [mutex EXCEPT ![At(t).m].writer = ""]
            /\ \E line \in At(t).next : thread' = Goto(t, line)
            /\ UNCHANGED crashed
       ELSE crashed' = TRUE /\ UNCHANGED <<thread, mutex>>
    /\ UNCHANGED <<call, clientOK, tallyVars, scanVars>>

Thread_RUnlock(t) ==
    /\ ~crashed /\ At(t).op = "RUnlock"
    /\ IF t \in mutex[At(t).m].readers
       THEN /\ mutex' = [mutex EXCEPT ![At(t).m].readers = @ \ {t}]
            /\ \E line \in At(t).next : thread' = Goto(t, line)
            /\ UNCHANGED crashed
       ELSE crashed' = TRUE /\ UNCHANGED <<thread, mutex>>
    /\ UNCHANGED <<call, clientOK, tallyVars, scanVars>>

\* a request to the ledger returns, with or without an error
Thread_Ledger(t) ==
    /\ ~crashed /\ At(t).op = "ledger"
    /\ \E line \in At(t).next : thread' = Goto(t, line)
    /\ UNCHANGED <<mutex, call, clientOK, crashed, tallyVars, scanVars>>

\* a test goes one way or the other; a go statement returns at once
Thread_Step(t) ==
    /\ ~crashed /\ At(t).op \in {"test", "go"}
    /\ \E line \in At(t).next : thread' = Goto(t, line)
    /\ UNCHANGED <<mutex, call, clientOK, crashed, tallyVars, scanVars>>

Thread_Return(t) ==
    /\ ~crashed /\ At(t).op = "return"
    /\ thread' = [thread EXCEPT ![t] = IdleThread]
    /\ UNCHANGED <<mutex, call, clientOK, crashed, tallyVars, scanVars>>

ScanNext ==
    \/ \E s \in StartHeights : TriggerHistoricalScan(s)
    \/ \E i \in ScanIds : Scan_GetTip(i)
    \/ \E i \in ScanIds : Scan_SetHeight(i)
    \/ \E i \in ScanIds : Scan_Append(i)
    \/ \E i \in ScanIds : Scan_Finish(i)
    \/ GetScanProgress
    \/ GetScanResults

TallyNext ==
    \/ \E c \in Callers : GetTally_CheckCache(c)
    \/ \E c \in Callers : GetTally_CheckJobs(c)
    \/ \E c \in Callers : GetTally_ReadProgress(c)
    \/ \E c \in Callers : GetTally_Launch(c)
    \/ \E c \in Callers : calculateTSpendVotes(c)
    \/ \E j \in JobIds : Async_Start(j)
    \/ \E j \in JobIds : Async_Block(j)
    \/ \E j \in JobIds : Async_CacheResult(j)
    \/ \E j \in JobIds : Async_MarkComplete(j)
    \/ \E j \in JobIds : Async_Cleanup(j)

Init ==
    /\ clientOK \in BOOLEAN
    /\ crashed = FALSE
    /\ call = NoCall
    /\ LocksFree
    /\ votingCache = EmptyMap
    /\ voteParsingProgress = EmptyMap
    /\ parsingJobs = EmptyMap
    /\ caller = [c \in Callers |-> IdleCaller]
    /\ ret = NoReturn
    /\ ncalls = 0
    /\ job = [j \in JobIds |-> UnusedJob]
    /\ isScanRunning = FALSE
    /\ currentScanHeight = 0
    /\ totalScanHeight = 0
    /\ tspendFoundCount = 0
    /\ scanResults = <<>>
    /\ newTSpendBuffer = <<>>
    /\ scan = [i \in ScanIds |-> UnusedScan]
    /\ triggerErr = ""
    /\ drained = <<>>
    /\ results = [list |-> <<>>, tick |-> FALSE]

Next == TallyNext \/ ScanNext

Spec == Init /\ [][Next]_vars

\* the tally engine alone, and the scanner alone
TallySpec == Init /\ [][TallyNext]_vars
ScanSpec == Init /\ [][ScanNext]_vars

\* a launched goroutine keeps being scheduled, and every ledger call it makes returns
JobStep(j) ==
    \/ Async_Start(j) \/ Async_Block(j) \/ Async_CacheResult(j)
    \/ Async_MarkComplete(j) \/ Async_Cleanup(j)
FairTallySpec == TallySpec /\ WF_vars(\E j \in JobIds : JobStep(j))

\* Tally computations over windows of full width. Either the state after a
\* GetTSpendVotingInfo for a confirmed spend at any of WideHeights has launched
\* its job; or the state after a second call for the hash, having read the job
\* as registered and found no progress record yet, has reached the synchronous
\* computation with any of WideHeights or WideExpiries. No further calls
WideHeights == {TreasuryActivationHeight - 1, TreasuryActivationHeight + MaxWindow, 560000}
\* expiries of a pending spend: next block, and a window of 3001 and of 3002 heights
WideExpiries == {TreasuryActivationHeight + MaxWindow + 1,
                 TreasuryActivationHeight + MaxWindow + (maxScanRange - VotingInterval),
                 TreasuryActivationHeight + MaxWindow + (maxScanRange - VotingInterval) + 1}
WindowInit ==
    /\ clientOK \in BOOLEAN
    /\ crashed = FALSE
    /\ call = NoCall
    /\ LocksFree
    /\ votingCache = EmptyMap
    /\ voteParsingProgress = EmptyMap
    /\ \E h \in Hashes, sync \in BOOLEAN :
       \E bh \in (IF sync THEN BlockHeights ELSE WideHeights) :
         /\ ncalls = IF sync THEN 2 ELSE 1
         /\ parsingJobs = MapPut(EmptyMap, h, TRUE)
         /\ job = [j \in JobIds |->
                      IF j = 1 THEN [UnusedJob EXCEPT !.pc = "start", !.txHash = h,
                                                      !.blockHeight = bh]
                      ELSE UnusedJob]
         /\ ret = Return("placeholder", h, FALSE, FALSE,
                         VotingInfo(bh - VotingInterval, bh, 0, 0, 0, 0, FALSE, FALSE, FALSE))
         /\ \E m \in BOOLEAN :
            \E cbh \in (IF m THEN {0} ELSE WideHeights), e \in (IF m THEN WideExpiries ELSE {0}) :
              caller = [c \in Callers |->
                           IF sync /\ c = "c1"
                           THEN [pc |-> "compute", txHash |-> h, blockHeight |-> cbh,
                                 expiry |-> e, inMempool |-> m, isJobRunning |-> TRUE]
                           ELSE IdleCaller]
    /\ isScanRunning = FALSE
    /\ currentScanHeight = 0
    /\ totalScanHeight = 0
    /\ tspendFoundCount = 0
    /\ scanResults = <<>>
    /\ newTSpendBuffer = <<>>
    /\ scan = [i \in ScanIds |-> UnusedScan]
    /\ triggerErr = ""
    /\ drained = <<>>
    /\ results = [list |-> <<>>, tick |-> FALSE]

WindowNext ==
    \/ \E c \in Callers : calculateTSpendVotes(c)
    \/ \E j \in JobIds : Async_Start(j)
    \/ \E j \in JobIds : Async_Block(j)
    \/ \E j \in JobIds : Async_CacheResult(j)
    \/ \E j \in JobIds : Async_MarkComplete(j)
    \/ \E j \in JobIds : Async_Cleanup(j)

WindowSpec == WindowInit /\ [][WindowNext]_vars

\* The scanner and the tally engine side by side, from the state after
\* MaxScans - 1 scans triggered from the floor that ended on a failed
\* GetBlockCount, MaxCalls - 2 calls for pending spends and one call for the
\* other hash that launched its job: one call, for a hash of Hashes, and one
\* scan, from the floor, are still to come; the scan is followed up to the
\* first spend it finds
OtherHash == "h2"
OtherHeights == {TreasuryActivationHeight}
ParallelInit ==
    /\ clientOK = TRUE
    /\ crashed = FALSE
    /\ call = NoCall
    /\ LocksFree
    /\ votingCache = EmptyMap
    /\ voteParsingProgress = EmptyMap
    /\ caller = [c \in Callers |-> IdleCaller]
    /\ ncalls = MaxCalls - 1
    /\ \E bh \in OtherHeights :
         /\ parsingJobs = MapPut(EmptyMap, OtherHash, TRUE)
         /\ job = [j \in JobIds |->
                      IF j = 1 THEN [UnusedJob EXCEPT !.pc = "start", !.txHash = OtherHash,
                                                      !.blockHeight = bh]
                      ELSE UnusedJob]
         /\ ret = Return("placeholder", OtherHash, FALSE, FALSE,
                         VotingInfo(bh - VotingInterval, bh, 0, 0, 0, 0, FALSE, FALSE, FALSE))
    /\ isScanRunning = FALSE
    /\ currentScanHeight = IF MaxScans > 1 THEN TreasuryActivationHeight ELSE 0
    /\ totalScanHeight = 0
    /\ tspendFoundCount = 0
    /\ scanResults = <<>>
    /\ newTSpendBuffer = <<>>
    /\ scan = [i \in ScanIds |->
                  IF i < MaxScans THEN [UnusedScan EXCEPT !.pc = "aborted"] ELSE UnusedScan]
    /\ triggerErr = IF MaxScans > 1 THEN "nil" ELSE ""
    /\ drained = <<>>
    /\ results = [list |-> <<>>, tick |-> FALSE]

ParallelNext ==
    \/ \E c \in Callers : GetTally_CheckCache(c)
    \/ \E c \in Callers : GetTally_CheckJobs(c)
    \/ \E c \in Callers : GetTally_Launch(c)
    \/ \E c \in Callers : calculateTSpendVotes(c)
    \/ \E j \in JobIds : Async_Start(j)
    \/ \E j \in JobIds : Async_Block(j)
    \/ \E j \in JobIds : Async_CacheResult(j)
    \/ \E j \in JobIds : Async_MarkComplete(j)
    \/ \E j \in JobIds : Async_Cleanup(j)
    \/ \E s \in {0} : TriggerHistoricalScan(s)
    \/ \E i \in ScanIds : Scan_GetTip(i)
    \/ \E i \in ScanIds : Scan_SetHeight(i)
    \/ \E i \in ScanIds : Scan_Finish(i)

ParallelSpec == ParallelInit /\ [][ParallelNext]_vars

\* The package variables before any call
PackageAtRest ==
    /\ crashed = FALSE
    /\ LocksFree
    /\ votingCache = EmptyMap
    /\ voteParsingProgress = EmptyMap
    /\ parsingJobs = EmptyMap
    /\ caller = [c \in Callers |-> IdleCaller]
    /\ ret = NoReturn
    /\ ncalls = 0
    /\ job = [j \in JobIds |-> UnusedJob]
    /\ isScanRunning = FALSE
    /\ currentScanHeight = 0
    /\ totalScanHeight = 0
    /\ tspendFoundCount = 0
    /\ scanResults = <<>>
    /\ newTSpendBuffer = <<>>
    /\ scan = [i \in ScanIds |-> UnusedScan]
    /\ triggerErr = ""
    /\ drained = <<>>
    /\ results = [list |-> <<>>, tick |-> FALSE]

\* Everything but the call of a pure function, at rest
AtRest ==
    /\ clientOK = TRUE
    /\ PackageAtRest

\* The vote-bits decoder applied to one payload and one target hash
CodecInit ==
    /\ \E a \in CodecInputs(Headers) :
         call = [fn |-> "parseVoteBitsForTSpend", args |-> a, result |-> "", done |-> FALSE]
    /\ AtRest

CodecNext == Apply_parseVoteBitsForTSpend

CodecSpec == CodecInit /\ [][CodecNext]_vars

\* The spend classifier applied to one transaction record
ClassifierInit ==
    /\ \E a \in ClassifierInputs(VersionKinds) :
         call = [fn |-> "isTreasurySpend", args |-> a, result |-> FALSE, done |-> FALSE]
    /\ AtRest

ClassifierNext == Apply_isTreasurySpend

ClassifierSpec == ClassifierInit /\ [][ClassifierNext]_vars

\* The vote counting applied to one stake transaction
VoteInit ==
    /\ \E a \in StakeTxInputs(Counters) :
         call = [fn |-> "countVote", args |-> a, result |-> a.before, done |-> FALSE]
    /\ AtRest

VoteNext == Apply_countVote

VoteSpec == VoteInit /\ [][VoteNext]_vars

\* One call of extractTSpendHistory on the record of a spend found in block 552448
HistoryInit ==
    /\ \E a \in SpendTxInputs({TreasuryActivationHeight}) :
         call = [fn |-> "extractTSpendHistory", args |-> a, result |-> Nil, done |-> FALSE]
    /\ AtRest

HistoryNext == Apply_extractTSpendHistory

HistorySpec == HistoryInit /\ [][HistoryNext]_vars

\* One call of OpenWalletWithRetry with any of the maxRetries arguments
RetryInit ==
    /\ \E n \in RetryLimits :
         call = [fn |-> "OpenWalletWithRetry", args |-> [maxRetries |-> n],
                 result |-> RetryStart, done |-> FALSE]
    /\ AtRest

RetryNext == Retry_Attempt \/ Retry_AfterLoop

RetrySpec == RetryInit /\ [][RetryNext]_vars

\* Three threads, each executing any of the functions that take a lock, again
\* and again
LockInit ==
    /\ clientOK = TRUE
    /\ call = NoCall
    /\ PackageAtRest

LockNext ==
    \/ \E t \in ThreadIds : Thread_Call(t)
    \/ \E t \in ThreadIds : Thread_Block(t)
    \/ \E t \in ThreadIds : Thread_Lock(t)
    \/ \E t \in ThreadIds : Thread_RLock(t)
    \/ \E t \in ThreadIds : Thread_Unlock(t)
    \/ \E t \in ThreadIds : Thread_RUnlock(t)
    \/ \E t \in ThreadIds : Thread_Ledger(t)
    \/ \E t \in ThreadIds : Thread_Step(t)
    \/ \E t \in ThreadIds : Thread_Return(t)

LockSpec == LockInit /\ [][LockNext]_vars

\* The mempool probe, entered through GetMempoolTSpends or FetchTreasuryInfo
ProbeInit ==
    /\ \/ call = [fn |-> "GetMempoolTSpends", args |-> ProbeStart("mempool"),
                  result |-> [tspends |-> NilSlice, err |-> ""], done |-> FALSE]
       \/ call = [fn |-> "FetchTreasuryInfo", args |-> ProbeStart("balance"),
                  result |-> [tspends |-> NilSlice, err |-> ""], done |-> FALSE]
    /\ PackageAtRest
    /\ clientOK \in BOOLEAN

ProbeNext ==
    \/ Fetch_getTreasuryBalance
    \/ Probe_GetRawMempool
    \/ Probe_GetBlockCount
    \/ Probe_Tx
    \/ Probe_Return

ProbeSpec == ProbeInit /\ [][ProbeNext]_vars

\* One scan and one tally job side by side: the state after one accepted
\* TriggerHistoricalScan and one GetTSpendVotingInfo that launched a job, with
\* no further calls; both goroutines keep being scheduled
LoopInit ==
    /\ clientOK \in BOOLEAN
    /\ crashed = FALSE
    /\ call = NoCall
    /\ LocksFree
    /\ votingCache = EmptyMap
    /\ voteParsingProgress = EmptyMap
    /\ caller = [c \in Callers |-> IdleCaller]
    /\ ncalls = 1
    /\ \E h \in Hashes, bh \in BlockHeights :
         /\ parsingJobs = MapPut(EmptyMap, h, TRUE)
         /\ job = [j \in JobIds |->
                      IF j = 1 THEN [UnusedJob EXCEPT !.pc = "start", !.txHash = h,
                                                      !.blockHeight = bh]
                      ELSE UnusedJob]
         /\ ret = Return("placeholder", h, FALSE, FALSE,
                         VotingInfo(bh - VotingInterval, bh, 0, 0, 0, 0, FALSE, FALSE, FALSE))
    /\ \E s \in StartHeights :
         /\ currentScanHeight = Max(s, TreasuryActivationHeight)
         /\ scan = [i \in ScanIds |->
                       IF i = 1 THEN [UnusedScan EXCEPT !.pc = "getTip",
                                          !.startHeight = Max(s, TreasuryActivationHeight)]
                       ELSE UnusedScan]
    /\ isScanRunning = TRUE
    /\ totalScanHeight = 0
    /\ tspendFoundCount = 0
    /\ scanResults = <<>>
    /\ newTSpendBuffer = <<>>
    /\ triggerErr = "nil"
    /\ drained = <<>>
    /\ results = [list |-> <<>>, tick |-> FALSE]

LoopNext ==
    \/ \E j \in JobIds : Async_Start(j)
    \/ \E j \in JobIds : Async_Block(j)
    \/ \E j \in JobIds : Async_CacheResult(j)
    \/ \E j \in JobIds : Async_MarkComplete(j)
    \/ \E j \in JobIds : Async_Cleanup(j)
    \/ \E i \in ScanIds : Scan_GetTip(i)
    \/ \E i \in ScanIds : Scan_SetHeight(i)
    \/ \E i \in ScanIds : Scan_Append(i)
    \/ \E i \in ScanIds : Scan_Finish(i)

ScanStep(i) == Scan_GetTip(i) \/ Scan_SetHeight(i) \/ Scan_Append(i) \/ Scan_Finish(i)

LoopSpec == LoopInit /\ [][LoopNext]_vars
FairLoopSpec ==
    /\ LoopSpec
    /\ WF_vars(\E j \in JobIds : JobStep(j))
    /\ WF_vars(\E i \in ScanIds : ScanStep(i))



(* ---------------- the tally engine: single flight, cache, callers ---------------- *)

\* C1: under any interleaving of GetTSpendVotingInfo calls for one hash, at most
\* one calculateTSpendVotesAsync goroutine for that hash is executing at any time
C1_SingleFlightTally == \A h \in Hashes : Cardinality(JobsOf(h)) <= 1

\* C2: an entry of the result cache, once written, is never overwritten or
\* removed, so every later cached return for the hash is the same tally
C2_CacheImmutable ==
    [][\A h \in DOMAIN votingCache :
          h \in DOMAIN votingCache' /\ votingCache'[h] = votingCache[h]]_vars

\* C3: a GetTSpendVotingInfo call for a confirmed spend returns the cached tally,
\* a snapshot of the progress record or the placeholder, and issues no ledger
\* call on the caller's path
C3_ConfirmedNeverScansInCaller ==
    (ret.kind # "none" /\ ~ret.inMempool) =>
        (ret.kind \in {"cached", "snapshot", "placeholder"} /\ ~ret.ledger)


\* C4: every hash registered in parsingJobs is eventually deregistered; the
\* cleanup of a job that returned early for want of a client leaves the hash
\* neither registered nor cached; and a confirmed-spend call that then finds no
\* running job goes on to register the hash and launch a new job
C4_NeverStuckRunning ==
    /\ \A h \in Hashes : JobRunning(h) ~> ~JobRunning(h)
    /\ [][\A j \in JobIds :
            (~clientOK /\ job[j].pc = "cleanup" /\ job'[j].pc = "done") =>
                (job[j].txHash \notin DOMAIN parsingJobs'
                 /\ job[j].txHash \notin DOMAIN votingCache')]_vars
    /\ [][\A c \in Callers :
            /\ (caller[c].pc = "checkJobs" /\ caller'[c] # caller[c]
                /\ ~caller[c].inMempool /\ ~JobRunning(caller[c].txHash))
               => caller'[c].pc = "launch"
            /\ (caller[c].pc = "launch" /\ caller'[c] # caller[c])
               => (/\ caller[c].txHash \in DOMAIN parsingJobs'
                   /\ parsingJobs'[caller[c].txHash]
                   /\ \E j \in JobIds : /\ job[j].pc = "unused"
                                        /\ job'[j].pc = "start"
                                        /\ job'[j].txHash = caller[c].txHash)]_vars

\* a job returned early without a client, and the hash, not cached, was
\* registered again by a later launch
C4_Witness ==
    /\ ~clientOK
    /\ job[1].pc = "done" /\ job[2].pc = "start"
    /\ job[1].txHash = job[2].txHash
    /\ JobRunning(job[2].txHash)
    /\ job[2].txHash \notin DOMAIN votingCache


\* C6: while one job is the only one ever launched for a hash, its progress
\* record never decreases in CurrentBlock and never decreases in Progress
C6_ProgressMonotone ==
    [][\A h \in Hashes :
          (h \in DOMAIN voteParsingProgress /\ Cardinality(LaunchedFor(h)') = 1) =>
              /\ voteParsingProgress'[h].CurrentBlock >= voteParsingProgress[h].CurrentBlock
              /\ PctLE(voteParsingProgress[h].Progress, voteParsingProgress'[h].Progress)]_vars

\* C7: no step of a GetTSpendVotingInfo call with inMempool=true changes the
\* cache, the registry, the progress records or the set of jobs; such a call
\* never reaches the launch branch and never returns a cache entry
C7_MempoolCallWritesNothing ==
    /\ [](ret.inMempool => ret.kind # "cached")
    /\ [](\A c \in Callers : caller[c].inMempool => caller[c].pc # "launch")
    /\ [][\A c \in Callers :
            (caller'[c] # caller[c] /\ (caller[c].inMempool \/ caller'[c].inMempool)) =>
                UNCHANGED <<votingCache, parsingJobs, voteParsingProgress, job>>]_vars

\* a mempool call has computed its tally and all three maps are still empty
C7_Witness ==
    /\ ret.inMempool /\ ret.kind = "computed"
    /\ votingCache = EmptyMap /\ parsingJobs = EmptyMap /\ voteParsingProgress = EmptyMap

\* C8: every return of a GetTSpendVotingInfo call with inMempool=true comes from
\* the synchronous computation, whatever is kept for the hash
C8_MempoolAlwaysRecomputes == ret.inMempool => ret.kind \in {"computed", "error"}

(* ---------------- the scanner ---------------- *)

\* C5: at most one scanHistoricalTSpendsBackground goroutine is executing at any
\* time; a TriggerHistoricalScan while a scan is running starts none and returns
\* "scan already in progress"
C5_SingleFlightScanner ==
    /\ [](Cardinality(ActiveScans) <= 1)
    /\ [][isScanRunning =>
            /\ \A i \in ScanIds : scan[i].pc = "unused" => scan'[i].pc = "unused"
            /\ triggerErr' # triggerErr => triggerErr' = "scan already in progress"]_vars

\* a trigger was rejected while the one scan is running
C5_Witness ==
    /\ isScanRunning /\ triggerErr = "scan already in progress"
    /\ Cardinality(ActiveScans) = 1

\* C9: the NewTSpends returned since the trigger, followed by the buffer, are
\* the accumulated results, in order and without a record twice; each
\* GetScanProgress returns the whole buffer and leaves it empty
C9_DrainOnce ==
    /\ [](drained \o newTSpendBuffer = scanResults)
    /\ [](\A a, b \in DOMAIN scanResults : a # b => scanResults[a] # scanResults[b])
    /\ [][(scan' = scan /\ drained' # drained) =>
            (drained' = drained \o newTSpendBuffer /\ newTSpendBuffer' = <<>>)]_vars

\* one record was returned by a GetScanProgress and a later one waits in the buffer
C9_Witness == Len(drained) >= 1 /\ Len(newTSpendBuffer) >= 1 /\ isScanRunning

\* C10: between an accepted TriggerHistoricalScan and the first step of its
\* scan, GetScanProgress reports running, the clamped start height, nothing
\* found, nothing new and 0 percent, and the results are empty
C10_ResetAtTrigger ==
    \A i \in ScanIds :
        scan[i].pc = "getTip" =>
            /\ ScanProgressResult.IsScanning
            /\ ScanProgressResult.CurrentHeight = scan[i].startHeight
            /\ ScanProgressResult.TSpendFound = 0
            /\ ScanProgressResult.NewTSpends = <<>>
            /\ ScanProgressResult.Progress = Pct(0, 1)
            /\ scanResults = <<>>

\* C11: the percent GetScanProgress returns lies within [0, 100] in every state
C11_PercentInRange ==
    /\ PctLE(Pct(0, 1), ScanProgressResult.Progress)
    /\ PctLE(ScanProgressResult.Progress, Pct(1, 1))

\* C12: a scan whose GetBlockCount fails ends at once, with the running flag
\* cleared, no height visited and nothing recorded; with no scan left running
\* the flag is clear, and the next TriggerHistoricalScan is accepted
C12_TipFailureAborts ==
    /\ [][\A i \in ScanIds :
            (scan[i].pc = "getTip" /\ scan'[i].pc = "aborted") =>
                /\ ~isScanRunning'
                /\ currentScanHeight' = scan[i].startHeight
                /\ scanResults' = <<>> /\ newTSpendBuffer' = <<>> /\ tspendFoundCount' = 0]_vars
    /\ [](ActiveScans = {} => ~isScanRunning)
    /\ [][(ActiveScans = {} /\ \E i \in ScanIds : scan[i].pc = "aborted") =>
            /\ triggerErr' \in {triggerErr, "nil"}
            /\ scan' # scan =>
                  /\ triggerErr' = "nil" /\ isScanRunning'
                  /\ \E i \in ScanIds : scan[i].pc = "unused" /\ scan'[i].pc = "getTip"]_vars

\* a scan was aborted by a failed GetBlockCount and a later trigger was accepted
C12_Witness ==
    /\ \E i \in ScanIds : scan[i].pc = "aborted"
    /\ \E i \in ScanIds : scan[i].pc = "getTip"
    /\ isScanRunning /\ triggerErr = "nil"

\* C13: without a ledger client TriggerHistoricalScan returns an error, the
\* scanner stays idle and no goroutine brings the process down
C13_NoClientFailsAtOnce ==
    ~clientOK => (triggerErr # "nil" /\ ~isScanRunning /\ ~crashed)

(* ---------------- the two loops ---------------- *)

\* C14: a failed fetch or parse never ends a scan or a tally job early: every
\* step of either loop goes on to the next height until the last one is done,
\* a scan in its loop ends with the scanner idle, and a job in its loop ends
\* with its tally cached and its hash deregistered
C14_FailuresNeverEndLoop ==
    /\ [][\A i \in ScanIds :
            (scan[i].pc \in {"setHeight", "append"} /\ scan'[i] # scan[i]) =>
                \/ scan'[i].pc = "append" /\ scan'[i].h = scan[i].h
                \/ /\ scan'[i].pc = "setHeight" /\ scan'[i].h = scan[i].h + 1
                   /\ scan[i].h < scan[i].currentHeight
                \/ scan'[i].pc = "finish" /\ scan[i].h = scan[i].currentHeight]_vars
    /\ [][\A j \in JobIds :
            (job[j].pc = "loop" /\ job'[j] # job[j]) =>
                /\ job'[j].height = job[j].height + 1
                /\ job'[j].yesVotes >= job[j].yesVotes /\ job'[j].noVotes >= job[j].noVotes
                /\ \/ job'[j].pc = "loop" /\ job[j].height < job[j].votingEndBlock
                   \/ job'[j].pc = "final" /\ job[j].height = job[j].votingEndBlock]_vars
    /\ \A i \in ScanIds :
          (scan[i].pc \in {"setHeight", "append"}) ~> (scan[i].pc = "done" /\ ~isScanRunning)
    /\ \A j \in JobIds :
          (job[j].pc = "loop") ~>
              (/\ job[j].pc = "done"
               /\ job[j].txHash \in DOMAIN votingCache
               /\ ~JobRunning(job[j].txHash))

\* the scan recorded a spend after a failed fetch and has left its loop, while
\* the job, whose fetch of block 552450 failed (the progress record is still
\* the initial one), is at the last block of its window
C14_Witness ==
    /\ scan[1].pc = "finish" /\ scan[1].fault = "foundAfter"
    /\ job[1].pc = "loop" /\ job[1].height = job[1].votingEndBlock
    /\ job[1].height > TreasuryActivationHeight + 2
    /\ voteParsingProgress[job[1].txHash].CurrentBlock = TreasuryActivationHeight

C16_AtMostMaxScanRange ==
    /\ ret.kind = "computed" => ret.visited <= maxScanRange
    /\ \A j \in JobIds :
          job[j].pc \in ActiveJobPcs \ {"start"} =>
              job[j].height - job[j].votingStartBlock <= maxScanRange

\* the window a confirmed spend at blockHeight is to report
C17_Start(blockHeight) ==
    IF blockHeight - 2880 > 552448 THEN blockHeight - 2880 ELSE 552448

\* C17: for a confirmed spend the job starts its loop at
\* max(blockHeight - 2880, 552448), visits every height up to blockHeight, and
\* caches a tally with that window and complete=true; the synchronous
\* computation reports and scans the same window; blockHeight 560000 gives
\* [557120, 560000], 2881 blocks
C17_ConfirmedWindow ==
    /\ [](\A j \in JobIds :
            job[j].pc \in {"loop", "final", "markComplete", "cleanup"} /\ clientOK =>
                /\ job[j].votingStartBlock = C17_Start(job[j].blockHeight)
                /\ job[j].votingEndBlock = job[j].blockHeight
                /\ job[j].pc = "loop" => job[j].height <= job[j].blockHeight
                /\ job[j].pc # "loop" => job[j].height = job[j].blockHeight + 1
                /\ job[j].blockHeight = 560000 =>
                      job[j].votingStartBlock = 557120 /\ job[j].totalBlocks = 2881)
    /\ [][\A j \in JobIds :
            /\ (job[j].pc = "start" /\ job'[j].pc \in {"loop", "final"}) =>
                   job'[j].height = C17_Start(job[j].blockHeight)
            /\ (job[j].pc = "loop" /\ job'[j] # job[j]) => job'[j].height = job[j].height + 1
            /\ (job[j].pc = "final" /\ job'[j] # job[j]) =>
                   /\ votingCache'[job[j].txHash].VotingStartBlock = C17_Start(job[j].blockHeight)
                   /\ votingCache'[job[j].txHash].VotingEndBlock = job[j].blockHeight
                   /\ votingCache'[job[j].txHash].VotingComplete]_vars
    /\ []((ret.kind = "computed" /\ ~ret.inMempool) =>
            /\ ret.info.VotingStartBlock = C17_Start(ret.blockHeight)
            /\ ret.info.VotingEndBlock = ret.blockHeight
            /\ ret.info.VotingComplete
            /\ ret.scanFrom = C17_Start(ret.blockHeight)
            /\ ret.visited = Max(ret.blockHeight - C17_Start(ret.blockHeight) + 1, 0))

\* the job of a spend confirmed at 560000 has run its loop, counted a vote and
\* cached the window [557120, 560000]
C17_Witness ==
    /\ job[1].pc = "cleanup" /\ job[1].blockHeight = 560000
    /\ job[1].txHash \in DOMAIN votingCache
    /\ votingCache[job[1].txHash].VotingStartBlock = 557120
    /\ votingCache[job[1].txHash].VotingEndBlock = 560000
    /\ votingCache[job[1].txHash].VotesCast = 1

(* ---------------- the vote-bits codec ---------------- *)

\* C18: the payload encoded from (header, byte-reversed H, vote byte b), decoded
\* against H in either letter case, gives abstain, yes, no or invalid by the low
\* two bits of b; decoded against another hash it gives unknown
C18_CodecRoundTrip ==
    (call.fn = "parseVoteBitsForTSpend" /\ call.done /\ call.args.made = "encoded") =>
        call.result =
            IF call.args.target = call.args.hash
            THEN CASE call.args.vote % 4 = 0 -> "abstain"
                   [] call.args.vote % 4 = 1 -> "yes"
                   [] call.args.vote % 4 = 2 -> "no"
                   [] call.args.vote % 4 = 3 -> "invalid"
            ELSE "unknown"

\* vote byte 0xFD was decoded as yes against the hash written in the other case
C18_Witness ==
    /\ call.fn = "parseVoteBitsForTSpend" /\ call.done /\ call.args.made = "encoded"
    /\ call.args.target = call.args.hash /\ call.args.vote = 253
    /\ call.args.hash = [n \in 1..32 |-> 255 - n]
    /\ call.args.tspendHash # reverseHexBytes(Slice(call.args.hexData, 8, 72))
    /\ call.result = "yes"

\* C19: a payload cut short at any point, and a payload whose hash matches but
\* whose vote-byte field is not two hex digits, decode to unknown
C19_MalformedIsUnknown ==
    (call.fn = "parseVoteBitsForTSpend" /\ call.done
     /\ call.args.made \in {"short", "badvote"}) => call.result = "unknown"

(* ---------------- the spend classifier ---------------- *)

\* C20: isTreasurySpend is true exactly when some input carries the
\* treasury-spend marker, or some output's script type contains treasurygen
\* and the version is the number 3; absent and wrongly-typed fields count as
\* no match
C20_ClassifierExact ==
    (call.fn = "isTreasurySpend" /\ call.done) =>
        (call.result <=>
            \/ \E n \in 1..Len(call.args.vin.items) :
                  call.args.vin.items[n] \in {"marker", "markerNull"}
            \/ /\ call.args.version = "three"
               /\ \E n \in 1..Len(call.args.vout.items) :
                     call.args.vout.items[n] \in {"treasurygen", "TreasuryGen"})

\* a version 3 record with no usable vin whose second output, after one that is
\* no object, has a treasurygen script type, was classified as a spend
C20_Witness ==
    /\ call.fn = "isTreasurySpend" /\ call.done
    /\ call.args.vin.shape = "wrong"
    /\ call.args.vout.items = <<"wrong", "treasurygen">>
    /\ call.args.version = "three"
    /\ call.result = TRUE

(* ---------------- the mempool probe ---------------- *)

\* C21: whatever the outcome, GetMempoolTSpends and FetchTreasuryInfo return a
\* list that is empty or filled, never a nil list
C21_NeverNilList ==
    (call.fn \in ProbeFns /\ call.done) => ~call.result.tspends.nil

\* C30: a probe that got the mempool listing returns no error; its height is 0
\* when GetBlockCount failed; the failed and the other transactions give no
\* record, and every spend gives exactly one record, with blocksRemaining =
\* expiry - currentHeight and status voting
C30_ProbeRecords ==
    (call.fn \in ProbeFns /\ call.done /\ call.args.pc = "txs") =>
        LET recs == call.result.tspends.items
            spends == {f \in call.args.fetched : f.answer.kind = "spend"}
        IN /\ call.result.err = ""
           /\ call.args.heightFailed => call.args.currentHeight = 0
           /\ Len(recs) = Cardinality(spends)
           /\ \A f \in spends :
                 \E n \in 1..Len(recs) :
                    /\ recs[n].TxHash = f.tx
                    /\ recs[n].BlocksRemaining = f.answer.expiry - call.args.currentHeight
                    /\ recs[n].Status = "voting"
                    /\ \A m \in 1..Len(recs) : recs[m].TxHash = f.tx => m = n

\* the height fetch failed, one transaction's fetch failed, and the two spends
\* were returned with blocksRemaining = expiry
C30_Witness ==
    /\ call.fn = "GetMempoolTSpends" /\ call.done /\ call.args.pc = "txs"
    /\ call.args.heightFailed
    /\ \E f \in call.args.fetched : f.answer.kind = "fail"
    /\ Len(call.result.tspends.items) = 2
    /\ call.result.tspends.items[1].BlocksRemaining = 552571

(* ---------------- statistics of a tally ---------------- *)

\* the statistics of the claim for one tally
C22_Stats(info) ==
    /\ info.EligibleVotes =
          VotesPerBlockEstimate * (info.VotingEndBlock - info.VotingStartBlock + 1)
    /\ info.QuorumRequired = GoDiv(info.EligibleVotes, 5)
    /\ info.VotesCast = info.YesVotes + info.NoVotes
    /\ info.QuorumAchieved <=> (info.VotesCast >= info.QuorumRequired)

\* C22: every finalized tally, cached by a job or computed in the caller, has
\* eligibleVotes = 5 x the blocks of its window counted inclusively,
\* quorumRequired = eligibleVotes / 5, votesCast = yes + no, and quorumAchieved
\* exactly when votesCast >= quorumRequired
C22_EligibleVotes ==
    /\ \A h \in DOMAIN votingCache : C22_Stats(votingCache[h])
    /\ (ret.kind = "computed" /\ ret.info.VotingComplete) => C22_Stats(ret.info)

(* ---------------- independent single-flight domains ---------------- *)

\* C23: a call for a confirmed spend whose own hash is not registered goes on
\* to launch, whatever other jobs and scans run, and the launch registers the
\* hash and starts a job for it; a trigger is accepted whenever no scan runs,
\* whatever jobs run
C23_IndependentFlights ==
    [][/\ \A c \in Callers :
            (/\ caller[c].pc = "checkJobs" /\ caller'[c].pc # "checkJobs"
             /\ ~caller[c].inMempool
             /\ caller[c].txHash \notin DOMAIN parsingJobs)
            => caller'[c].pc = "launch"
       /\ \A c \in Callers :
            (caller[c].pc = "launch")
            => /\ \E j \in JobIds : job[j].pc = "unused"
               /\ caller'[c].pc = "idle" =>
                     /\ caller[c].txHash \in DOMAIN parsingJobs'
                     /\ parsingJobs'[caller[c].txHash]
                     /\ \E j \in JobIds : /\ job[j].pc = "unused" /\ job'[j].pc = "start"
                                          /\ job'[j].txHash = caller[c].txHash
       /\ (~isScanRunning /\ triggerErr' # triggerErr)
            => (triggerErr' = "nil" /\ isScanRunning')
      ]_vars

\* a scan and the jobs of two hashes are in their loops at the same time
C23_Witness ==
    /\ isScanRunning /\ \E i \in ScanIds : scan[i].pc = "setHeight"
    /\ \E j \in JobIds : job[j].pc = "loop" /\ job[j].txHash = "h1"
    /\ \E j \in JobIds : job[j].pc = "loop" /\ job[j].txHash = OtherHash

(* ---------------- completion, launch and cache hit ---------------- *)

\* the 100%-complete progress record of a hash
C24_Complete(h) ==
    /\ h \in DOMAIN voteParsingProgress
    /\ ~voteParsingProgress[h].IsParsing
    /\ voteParsingProgress[h].Progress = Pct(1, 1)

\* the last three steps of a job: the cache, then the 100% progress record,
\* then the running marker
C24_Steps ==
       \A j \in JobIds :
         /\ (job[j].pc = "final" /\ job'[j].pc # "final")
              => /\ job'[j].pc = "markComplete"
                 /\ job[j].txHash \in DOMAIN votingCache'
                 /\ UNCHANGED <<voteParsingProgress, parsingJobs>>
         /\ (job[j].pc = "markComplete" /\ job'[j].pc # "markComplete")
              => /\ job'[j].pc = "cleanup"
                 /\ job[j].txHash \in DOMAIN votingCache
                 /\ ~voteParsingProgress'[job[j].txHash].IsParsing
                 /\ voteParsingProgress'[job[j].txHash].Progress = Pct(1, 1)
                 /\ UNCHANGED <<votingCache, parsingJobs>>
         /\ (job[j].pc = "cleanup" /\ job'[j].pc # "cleanup" /\ clientOK)
              => /\ job[j].txHash \in DOMAIN votingCache
                 /\ job[j].txHash \notin DOMAIN parsingJobs'
                 /\ UNCHANGED <<votingCache, voteParsingProgress>>

\* a hash that is not registered as running and whose progress record is 100%
\* complete has a cache entry
C24_CompleteIsCached ==
    \A h \in Hashes : (~JobRunning(h) /\ C24_Complete(h)) => h \in DOMAIN votingCache

\* C24: a job that ran its loop writes the cache first, then the 100% progress
\* record, and only then removes the running marker; hence a hash that is not
\* registered as running and whose progress record is 100% complete is cached
C24_CompletionOrder == [][C24_Steps]_vars /\ []C24_CompleteIsCached

\* a job counted a vote, finished and left its hash cached, complete and unregistered
C24_Witness ==
    \E j \in JobIds :
        /\ job[j].pc = "done" /\ ~JobRunning(job[j].txHash)
        /\ C24_Complete(job[j].txHash)
        /\ job[j].txHash \in DOMAIN votingCache
        /\ votingCache[job[j].txHash].VotesCast = 1

\* C25: the step of a call that found neither a cache entry nor a running job
\* registers the hash, starts a job that has taken no step yet, and returns a
\* placeholder with zero counts and statistics, votingComplete = false and
\* window end = blockHeight
C25_LaunchRegistersFirst ==
    [][\A c \in Callers :
         (caller[c].pc = "launch" /\ caller'[c].pc # "launch")
         => /\ caller[c].txHash \in DOMAIN parsingJobs'
            /\ parsingJobs'[caller[c].txHash]
            /\ \E j \in JobIds :
                  /\ job[j].pc = "unused" /\ job'[j].pc = "start"
                  /\ job'[j].txHash = caller[c].txHash
                  /\ job'[j].blockHeight = caller[c].blockHeight
            /\ UNCHANGED <<votingCache, voteParsingProgress>>
            /\ ret'.kind = "placeholder" /\ ret'.txHash = caller[c].txHash
            /\ ret'.info.YesVotes = 0 /\ ret'.info.NoVotes = 0
            /\ ret'.info.VotesCast = 0 /\ ret'.info.EligibleVotes = 0
            /\ ret'.info.QuorumRequired = 0 /\ ~ret'.info.QuorumAchieved
            /\ ~ret'.info.VotingComplete
            /\ ret'.info.VotingEndBlock = caller[c].blockHeight
      ]_vars

\* a placeholder was returned while the job it launched has taken no step
C25_Witness ==
    /\ ret.kind = "placeholder" /\ JobRunning(ret.txHash)
    /\ ret.info.VotingEndBlock = TreasuryActivationHeight + MaxWindow
    /\ \E j \in JobIds : job[j].pc = "start" /\ job[j].txHash = ret.txHash
    /\ ret.txHash \notin DOMAIN voteParsingProgress

\* C26: a call for a confirmed spend whose hash is cached returns the entry in
\* its first step and changes nothing; no other call goes past the lookup when
\* its hash is cached
C26_CacheHitChangesNothing ==
    [][(ncalls' = ncalls + 1) =>
         /\ (caller' = caller) =>
               /\ ret'.kind = "cached" /\ ~ret'.inMempool
               /\ ret'.txHash \in DOMAIN votingCache
               /\ ret'.info = votingCache[ret'.txHash]
               /\ UNCHANGED <<votingCache, voteParsingProgress, parsingJobs, job>>
         /\ \A c \in Callers :
               (caller'[c] # caller[c] /\ ~caller'[c].inMempool)
               => caller'[c].txHash \notin DOMAIN votingCache
      ]_vars

\* the second call returned the cache entry the first call's job had written
C26_Witness ==
    /\ ret.kind = "cached" /\ ncalls = 2
    /\ ret.info = votingCache[ret.txHash]
    /\ ret.info.VotingComplete
    /\ \A j \in JobIds : job[j].pc \in {"unused", "done"}

(* ---------------- progress emission, mempool window ---------------- *)

\* C27: while a job scans its window, fewer than 50 heights have been scanned
\* since the height of the last progress update, whatever fetches failed
C27_ProgressCadence ==
    \A j \in JobIds :
        (/\ job[j].pc \in {"loop", "final"}
         /\ job[j].votingStartBlock <= job[j].votingEndBlock
         /\ JobsOf(job[j].txHash) = {j}
         /\ job[j].txHash \in DOMAIN voteParsingProgress)
        => LET p == voteParsingProgress[job[j].txHash]
           IN (job[j].height - 1) - p.CurrentBlock < ProgressEvery

\* the window of the claim for a pending spend
C29_Start(tip) == tip - VotingInterval

\* C29: the tally computed for a pending spend has window start = chain tip -
\* 2880, window end = expiry, votingComplete = false and inMempool = true
C29_MempoolWindow ==
    (ret.kind = "computed" /\ ret.inMempool) =>
        /\ ret.info.VotingStartBlock = C29_Start(ret.tip)
        /\ ret.info.VotingEndBlock = ret.expiry
        /\ ~ret.info.VotingComplete
        /\ ret.info.InMempool

(* ---------------- vote counting ---------------- *)

\* what the codec makes of the script of an output of a kind
C28_Decodes(kind) ==
    CASE kind \in {"yes", "pubkeyhashYes"} -> "yes"
      [] kind \in {"no", "abstain", "invalid"} -> kind
      [] OTHER -> "unknown"

\* C28: a transaction without a stakebase input changes no counter; otherwise
\* the first output that decodes to something other than unknown decides: yes
\* adds one to the yes counter, no adds one to the no counter, everything else
\* changes neither
C28_VoteCounting ==
    (call.fn = "countVote" /\ call.done) =>
        LET ins == call.args.vin.items
            outs == call.args.vout.items
            marked == \E n \in 1..Len(ins) : ins[n] = "stakebase"
            decided == {n \in 1..Len(outs) : C28_Decodes(outs[n]) # "unknown"}
            vote == IF ~marked \/ decided = {} THEN "unknown"
                    ELSE C28_Decodes(outs[CHOOSE n \in decided : \A m \in decided : n <= m])
        IN /\ call.result.yesVotes =
                call.args.before.yesVotes + (IF vote = "yes" THEN 1 ELSE 0)
           /\ call.result.noVotes =
                call.args.before.noVotes + (IF vote = "no" THEN 1 ELSE 0)

(* ---------------- the scan loop and its records ---------------- *)

\* C31: a scan whose GetBlockCount returned T starts at its clamped start
\* height, sets currentScanHeight to each height from there to T once and in
\* increasing order, never goes above T, has totalScanHeight = T until it
\* ends, and ends with the scanner idle, also when the start is above T
C31_ScanRange ==
    /\ [][\A i \in ScanIds :
            /\ (scan[i].pc = "getTip" /\ scan'[i].pc \in {"setHeight", "finish"}) =>
                  /\ scan[i].startHeight \in {Max(s, TreasuryActivationHeight) : s \in StartHeights}
                  /\ scan'[i].currentHeight = totalScanHeight'
                  /\ currentScanHeight' = currentScanHeight
                  /\ IF scan[i].startHeight <= scan'[i].currentHeight
                     THEN scan'[i].pc = "setHeight" /\ scan'[i].h = scan[i].startHeight
                     ELSE scan'[i].pc = "finish"
            /\ (scan[i].pc = "setHeight" /\ scan'[i] # scan[i]) =>
                  /\ currentScanHeight' = scan[i].h
                  /\ scan[i].h <= scan[i].currentHeight
            /\ (scan[i].pc = "append" /\ scan'[i] # scan[i]) =>
                  currentScanHeight' = currentScanHeight
            /\ (scan[i].pc \in {"setHeight", "append"} /\ scan'[i] # scan[i]) =>
                  /\ scan'[i].currentHeight = scan[i].currentHeight
                  /\ \/ scan'[i].pc = "append" /\ scan'[i].h = scan[i].h
                     \/ /\ scan'[i].pc = "setHeight" /\ scan'[i].h = scan[i].h + 1
                        /\ scan'[i].h <= scan[i].currentHeight
                     \/ scan'[i].pc = "finish" /\ scan[i].h = scan[i].currentHeight
            /\ (scan[i].pc = "finish" /\ scan'[i] # scan[i]) =>
                  /\ scan'[i].pc = "done" /\ ~isScanRunning'
                  /\ currentScanHeight' = currentScanHeight
                  /\ totalScanHeight' = totalScanHeight]_vars
    /\ [](\A i \in ScanIds :
            scan[i].pc \in {"setHeight", "append", "finish"} =>
                /\ ScanProgressResult.TotalHeight = scan[i].currentHeight
                /\ ScanProgressResult.CurrentHeight <= Max(scan[i].currentHeight,
                                                           scan[i].startHeight))
    /\ \A i \in ScanIds :
          (scan[i].pc \in {"setHeight", "append", "finish"}) ~>
              (scan[i].pc = "done" /\ ~isScanRunning)

\* a scan that started below the tip has set currentScanHeight to the tip and
\* has left its loop
C31_Witness ==
    /\ scan[1].pc = "finish"
    /\ scan[1].h = scan[1].currentHeight
    /\ scan[1].startHeight + MaxScanSpan - 1 = scan[1].currentHeight
    /\ currentScanHeight = scan[1].currentHeight
    /\ totalScanHeight = scan[1].currentHeight

\* C32: whenever GetScanProgress reports currentHeight = h for the block a scan
\* is working on, every treasury spend of block h is already in scanResults and
\* counted in tspendFoundCount
C32_HeightAfterProcessing ==
    \A i \in ScanIds :
        (scan[i].pc = "append" /\ ScanProgressResult.CurrentHeight = scan[i].h) =>
            LET spends == {k \in DOMAIN scan[i].txs : scan[i].txs[k] = "spend"}
            IN /\ \A k \in spends :
                     \E n \in DOMAIN scanResults : scanResults[n] = History(scan[i].h, k)
               /\ ScanProgressResult.TSpendFound >= Cardinality(spends)

\* what an output of a kind pays, and the address it names (none: <<>>)
C33_Value(kind) ==
    CASE kind = "valueOnly" -> 4
      [] kind \in {"noAddresses", "emptyAddresses", "addressWrong", "payA"} -> 1
      [] kind = "payB" -> 2
      [] OTHER -> 0
C33_Address(kind) ==
    CASE kind = "valueWrong" -> <<"c">>
      [] kind = "payA" -> <<"a">>
      [] kind = "payB" -> <<"b">>
      [] OTHER -> <<>>

\* C33: the record made of a treasury spend has the sum of all output values as
\* its amount, the address of the first output that names one as its payee, and
\* "approved" as its vote result
C33_HistoryRecord ==
    (call.fn = "extractTSpendHistory" /\ call.done /\ isTreasurySpend(call.args.tx)) =>
        LET outs == call.args.vout.items
            named == {n \in 1..Len(outs) : C33_Address(outs[n]) # <<>>}
            total[n \in 0..Len(outs)] == IF n = 0 THEN 0 ELSE total[n - 1] + C33_Value(outs[n])
        IN /\ call.result.Amount = total[Len(outs)]
           /\ call.result.Payee =
                 IF named = {} THEN <<>>
                 ELSE C33_Address(outs[CHOOSE n \in named : \A m \in named : n <= m])
           /\ call.result.VoteResult = "approved"

\* C34: a TriggerHistoricalScan that returns "scan already in progress" leaves
\* the running flag, both heights, the found count, the results and the buffer
\* as they were, and the running scan goes on from where it was
C34_RejectedTriggerChangesNothing ==
    [][(isScanRunning /\ triggerErr' # triggerErr) =>
          /\ triggerErr' = "scan already in progress"
          /\ UNCHANGED <<isScanRunning, currentScanHeight, totalScanHeight, tspendFoundCount,
                         scanResults, newTSpendBuffer, scan>>]_vars

\* a trigger was rejected while the running scan had recorded a spend that no
\* GetScanProgress has collected yet
C34_Witness ==
    /\ isScanRunning /\ triggerErr = "scan already in progress"
    /\ Len(scanResults) >= 1 /\ Len(newTSpendBuffer) >= 1
    /\ tspendFoundCount = Len(scanResults)
    /\ \E i \in ScanIds : scan[i].pc \in {"setHeight", "append"}

\* C35: in every state outside a scanMutex section tspendFoundCount is the
\* length of scanResults, and newTSpendBuffer is the end of scanResults
C35_CountAndBuffer ==
    /\ ScanProgressResult.TSpendFound = Len(scanResults)
    /\ Len(newTSpendBuffer) <= Len(scanResults)
    /\ newTSpendBuffer = SubSeq(scanResults, Len(scanResults) - Len(newTSpendBuffer) + 1,
                                Len(scanResults))

\* two spends are recorded; GetScanProgress collected the first, the second
\* waits in the buffer
C35_Witness ==
    /\ Len(scanResults) = 2 /\ tspendFoundCount = 2
    /\ newTSpendBuffer = <<scanResults[2]>>
    /\ drained = <<scanResults[1]>>

(* ---------------- completion and the cache ---------------- *)

\* C36: a hash whose progress record says parsing = false has a cache entry,
\* and so has the hash of every snapshot returned with votingComplete = true
C36_NotParsingIsCached ==
    /\ \A h \in Hashes :
          (h \in DOMAIN voteParsingProgress /\ ~voteParsingProgress[h].IsParsing) =>
              h \in DOMAIN votingCache
    /\ (ret.kind = "snapshot" /\ ret.info.VotingComplete) =>
          ret.txHash \in DOMAIN votingCache

(* ---------------- lock discipline ---------------- *)

\* the threads that stand between thread t and the mutex it asks for
C37_Blockers(t) ==
    LET m == mutex[At(t).m]
    IN (IF m.writer = "" THEN {} ELSE {m.writer}) \cup m.readers
       \cup (IF At(t).op = "RLock" THEN m.waiting ELSE {})

\* C37: no thread asks for a lock or calls the ledger while it holds a lock, so
\* no thread ever holds two; and whenever a thread cannot go on, one of the
\* threads it waits for can: no set of threads is blocked for good
C37_NoDeadlock ==
    /\ ~crashed
    /\ \A t \in ThreadIds :
          /\ Cardinality(Held(t)) <= 1
          /\ At(t).op \in {"Lock", "RLock", "ledger", "return", "idle"} => Held(t) = {}
          /\ (Active(t) /\ ~CanStep(t)) => \E u \in C37_Blockers(t) : CanStep(u)

\* GetScanResults holds scanMutex for reading, the scan is blocked in Lock on
\* it, and a GetScanProgress that came later is blocked behind both
C37_Witness ==
    \E r, w, p \in ThreadIds :
        /\ thread[r].fn = "GetScanResults" /\ mutex["scanMutex"].readers = {r}
        /\ thread[w].fn = "scanHistoricalTSpendsBackground" /\ thread[w].pc = 632
        /\ thread[p].fn = "GetScanProgress"
        /\ mutex["scanMutex"].waiting = {w, p}

\* C38: every cache entry is complete, not of a pending spend, has votesCast =
\* yesVotes + noVotes and ends at the blockHeight of a job launched for its
\* hash; only a job at the end of its loop writes an entry, with its own
\* blockHeight and counts, and the progress record it writes next has the
\* same counts
C38_CacheEntries ==
    /\ [](\A h \in DOMAIN votingCache :
            /\ votingCache[h].VotingComplete /\ ~votingCache[h].InMempool
            /\ votingCache[h].VotesCast = votingCache[h].YesVotes + votingCache[h].NoVotes
            /\ \E j \in JobIds :
                  job[j].txHash = h /\ job[j].blockHeight = votingCache[h].VotingEndBlock)
    /\ [][/\ votingCache' # votingCache =>
                \E j \in JobIds :
                    /\ job[j].pc = "final" /\ job'[j].pc = "markComplete"
                    /\ DOMAIN votingCache' = DOMAIN votingCache \cup {job[j].txHash}
                    /\ \A h \in DOMAIN votingCache :
                          h # job[j].txHash => votingCache'[h] = votingCache[h]
                    /\ votingCache'[job[j].txHash].VotingEndBlock = job[j].blockHeight
                    /\ votingCache'[job[j].txHash].YesVotes = job[j].yesVotes
                    /\ votingCache'[job[j].txHash].NoVotes = job[j].noVotes
                    /\ job'[j].yesVotes = job[j].yesVotes /\ job'[j].noVotes = job[j].noVotes
          /\ \A j \in JobIds :
                (job[j].pc = "markComplete" /\ job'[j].pc # "markComplete") =>
                    /\ voteParsingProgress'[job[j].txHash].YesVotes = job[j].yesVotes
                    /\ voteParsingProgress'[job[j].txHash].NoVotes = job[j].noVotes
                    /\ votingCache' = votingCache]_vars

\* a job has cached a tally with one no vote and has written its last progress
\* record with the same counts
C38_Witness ==
    \E j \in JobIds :
        /\ job[j].pc = "cleanup" /\ job[j].blockHeight > TreasuryActivationHeight
        /\ job[j].txHash \in DOMAIN votingCache
        /\ votingCache[job[j].txHash].NoVotes = 1
        /\ votingCache[job[j].txHash].VotesCast = 1
        /\ votingCache[job[j].txHash].VotingEndBlock = job[j].blockHeight
        /\ voteParsingProgress[job[j].txHash].NoVotes = 1
        /\ ~voteParsingProgress[job[j].txHash].IsParsing

(* ---------------- opening the wallet with retries ---------------- *)

\* C39: OpenWalletWithRetry calls OpenWallet at most maxRetries times, makes no
\* call after a successful one, returns nil only if a call succeeded, and
\* returns an error when maxRetries calls (none, for maxRetries <= 0) have all
\* failed
C39_RetryContract ==
    call.fn = "OpenWalletWithRetry" =>
        LET r == call.result
            limit == IF call.args.maxRetries > 0 THEN call.args.maxRetries ELSE 0
        IN /\ r.attempts <= limit
           /\ r.opened => (call.done /\ r.err = "nil")
           /\ (call.done /\ r.err = "nil") => r.opened
           /\ (call.done /\ ~r.opened) => (r.attempts = limit /\ r.err # "nil")

====
